---------------------------- MODULE Spec2Model ----------------------------
(***************************************************************************)
(* Verification model of the AgentAutoBench evaluation core:               *)
(*   - the ring-strain energy ladder (Extractors/RingStrain/               *)
(*     ringstrain_calc.py and Registry/jobs/RingStrain.py),                *)
(*   - the rubric scorers (Grading/Scorer/*.py, Grading/Rubrics/*.py),     *)
(*   - the structure-based folder selection (io/fs.py).                    *)
(*                                                                         *)
(* The program is a batch grader made of pure functions over a read-only   *)
(* data set.  The state records the last call, its arguments and what it   *)
(* returned:  call  is the name of the function, args its arguments, ret   *)
(* its return value (with the intermediate dictionaries the function       *)
(* builds).  Each action is one whole call.                                *)
(*                                                                         *)
(* Numbers.  Python floats are modelled in fixed point:                    *)
(*   energies   in 10^-3 Hartree            (-1.050 Eh  is  -1050)         *)
(*   HARTREE_TO_KCAL and unit_transfer_constant in 10^-1 kcal/mol/Eh       *)
(*   strain and tolerances in 10^-4 kcal/mol   (0.20 kcal/mol is 2000)     *)
(*   rubric points in 1/6000 of a point, written Pt(hundredths)            *)
(* An optional float is a record [k, v]:  k = "none" is Python's None,     *)
(* k = "nan" is float('nan'), k = "num" carries the value v.               *)
(***************************************************************************)
EXTENDS Integers, Sequences, FiniteSets, TLC

VARIABLES call, args, ret

vars == <<call, args, ret>>

-----------------------------------------------------------------------------
(* Optional floats and dictionaries *)

None == [k |-> "none", v |-> 0]

NaN == [k |-> "nan", v |-> 0]

Num(x) == [k |-> "num", v |-> x]

IsNone(x) == x.k = "none"

IsNum(x) == x.k = "num"

\* float arithmetic: a NaN operand gives NaN
FAdd(a, b) == IF a.k = "nan" \/ b.k = "nan" THEN NaN ELSE Num(a.v + b.v)

FSub(a, b) == IF a.k = "nan" \/ b.k = "nan" THEN NaN ELSE Num(a.v - b.v)

FMul(a, b) == IF a.k = "nan" \/ b.k = "nan" THEN NaN ELSE Num(a.v * b.v)

FAbs(a) == IF a.k = "nan" THEN NaN ELSE Num(IF a.v < 0 THEN 0 - a.v ELSE a.v)

\* a <= b on floats: every comparison with NaN is False
FLe(a, b) == a.k = "num" /\ b.k = "num" /\ a.v <= b.v

\* dict.get(key): None when the key is absent
Get(d, key) == IF key \in DOMAIN d THEN d[key] ELSE None

EmptyDict == [x \in {} |-> None]

SetMin(S) == CHOOSE x \in S : \A y \in S : x <= y

SetMax(S) == CHOOSE x \in S : \A y \in S : y <= x

\* rubric points: h hundredths of a point, in units of 1/6000 point
Pt(h) == h * 60

-----------------------------------------------------------------------------
(* Config/defaults.py *)

\* 627.5094740631 kcal/mol per Hartree, in 10^-1 kcal/mol
HARTREE_TO_KCAL == 6275


-----------------------------------------------------------------------------
(* Extractors/RingStrain/extractor_RS.py.  The text of an ORCA output is the
   sequence of its energy lines: "enthalpy" (Total Enthalpy ... v Eh),
   "gibbs" (Final Gibbs free energy ... v Eh), "sp_energy" (FINAL SINGLE
   POINT ENERGY v). *)

\* float(list(pattern.finditer(txt))[-1].group(1)), None without a match
LastMatch(txt, k) ==
    LET at == {i \in 1..Len(txt) : txt[i].k = k}
    IN IF at = {} THEN None ELSE Num(txt[SetMax(at)].v)

\* _extract_enthalpy_gibbs: when no Total Enthalpy is found, H is the FINAL
\* SINGLE POINT ENERGY
_extract_enthalpy_gibbs(txt) ==
    LET H == LastMatch(txt, "enthalpy")
        G == LastMatch(txt, "gibbs")
    IN [H |-> IF IsNone(H) THEN LastMatch(txt, "sp_energy") ELSE H, G |-> G]

\* ringstrain_calc._extract_HG_from_folder; outp is <<>> when the folder has
\* no primary output or it cannot be read, else <<txt>>
_extract_HG_from_folder(outp) ==
    IF outp = <<>> THEN [H |-> None, G |-> None]
    ELSE _extract_enthalpy_gibbs(outp[1])

\* ringstrain_calc._classify_folder for a folder whose geometry is of the
\* structure class (kind, ring_size)
_classify_folder(kind, ring_size, folder, outp) ==
    LET HG == _extract_HG_from_folder(outp)
    IN [kind |-> kind, ring_size |-> ring_size,
        H_total_au |-> HG.H, G_total_au |-> HG.G, folder |-> folder]

-----------------------------------------------------------------------------
(* Extractors/RingStrain/ringstrain_calc.py *)

\* ringstrain_calc._infer_ring_from_name.  Of the folder name only what the
\* function looks at is kept: formula, the n of the first "C<n>H<m>" in the
\* name (<<>> without one), and methyl_marker, whether the name holds "_ch3"
\* or "methyl".  <<>> is None.
_infer_ring_from_name(name, folder, outp) ==
    IF name.formula = <<>> THEN <<>>
    ELSE IF name.methyl_marker
    THEN <<_classify_folder("methyl", name.formula[1] - 1, folder, outp)>>
    ELSE <<_classify_folder("cyclo", name.formula[1], folder, outp)>>

\* ringstrain_calc._classify_folder as a whole.  mol is what the geometry
\* gives: k = "nomol" (no *.xyz, or _load_mol_from_xyz returns None), "cyclo"
\* (_is_cycloalkane_single_ring gives n), "methyl" (_is_methylcyclo_single_ring
\* gives n) or "other" (a molecule of neither class).
ClassifyFolder(mol, name, folder, outp) ==
    IF mol.k = "cyclo" THEN <<_classify_folder("cyclo", mol.n, folder, outp)>>
    ELSE IF mol.k = "methyl" THEN <<_classify_folder("methyl", mol.n, folder, outp)>>
    ELSE _infer_ring_from_name(name, folder, outp)

\* build_structure_energy_maps: infos is what _classify_folder returns for the
\* representative folders, in scan order; dict.setdefault keeps the first
\* record of every (kind, ring size).
StructureMap(infos, kind) ==
    LET idx(n) == {i \in 1..Len(infos) :
                     infos[i].kind = kind /\ infos[i].ring_size = n}
        keys == {infos[i].ring_size : i \in {j \in 1..Len(infos) : infos[j].kind = kind}}
    IN [n \in keys |->
          LET i == SetMin(idx(n))
          IN [folder |-> infos[i].folder,
              H_au |-> infos[i].H_total_au,
              G_au |-> infos[i].G_total_au]]

build_structure_energy_maps(infos) ==
    [cyclo |-> StructureMap(infos, "cyclo"), methyl |-> StructureMap(infos, "methyl")]

\* candidate_ns = {m + 1 for m in methyl} | set(cyclo)
candidate_ns(cyclo, methyl) == {m + 1 : m \in DOMAIN methyl} \cup DOMAIN cyclo

AdjacentDelta_NoMethylCheck(cyclo, methyl, n, key, K) ==
    IF n \in DOMAIN cyclo
    THEN LET Xm == IF (n - 1) \in DOMAIN methyl THEN methyl[n - 1][key] ELSE Num(0)
             Xc == cyclo[n][key]
         IN IF ~IsNone(Xm) /\ ~IsNone(Xc) THEN FMul(FSub(Xm, Xc), Num(K)) ELSE None
    ELSE None

AdjacentDelta_BothRequired(cyclo, methyl, n, key, K) ==
    LET m == n - 1
    IN IF m \in DOMAIN methyl /\ n \in DOMAIN cyclo
       THEN LET Xm == methyl[m][key]
                Xc == cyclo[n][key]
                present == \A k \in {"H_au", "G_au"} :
                             ~IsNone(methyl[m][k]) /\ ~IsNone(cyclo[n][k])
            IN IF present THEN FMul(FSub(Xm, Xc), Num(K)) ELSE None
       ELSE None

\* one pass of the loop "for n in candidate_ns" for one energy (key is "H_au"
\* or "G_au"): dX = (Xm - Xc) * unit_transfer_constant, else None
AdjacentDelta(cyclo, methyl, n, key, K) ==
    LET m == n - 1
    IN IF m \in DOMAIN methyl /\ n \in DOMAIN cyclo
       THEN LET Xm == methyl[m][key]
                Xc == cyclo[n][key]
            IN IF ~IsNone(Xm) /\ ~IsNone(Xc)
               THEN FMul(FSub(Xm, Xc), Num(K))
               ELSE None
       ELSE None

\* dH_by_n / dG_by_n
d_by_n(cyclo, methyl, key, K) ==
    [n \in candidate_ns(cyclo, methyl) |-> AdjacentDelta(cyclo, methyl, n, key, K)]

StrainStep_ZeroFill(prevS, d, sign) ==
    IF ~IsNone(prevS) /\ ~IsNone(d)
    THEN (IF sign > 0 THEN FAdd(prevS, d) ELSE FSub(prevS, d))
    ELSE Num(0)

StrainStep_AlwaysAdd(prevS, d, sign) ==
    IF ~IsNone(prevS) /\ ~IsNone(d) THEN FAdd(prevS, d) ELSE None

\* S[n] = (S.get(prev) + d) if (S.get(prev) is not None and d is not None) else None
\* (sign = 1, upward) and the same with "-" (sign = -1, downward)
StrainStep(prevS, d, sign) ==
    IF ~IsNone(prevS) /\ ~IsNone(d)
    THEN (IF sign > 0 THEN FAdd(prevS, d) ELSE FSub(prevS, d))
    ELSE None

\* Upward: for n in sorted(k for k in all_ns if k > 6): S[n] = S[n-1] + d[n]
RECURSIVE Upward(_, _, _)
Upward(S, todo, d) ==
    IF todo = {} THEN S
    ELSE LET n == SetMin(todo)
         IN Upward(S @@ (n :> StrainStep(Get(S, n - 1), Get(d, n), 1)), todo \ {n}, d)

\* Downward: for n in sorted((k for k in all_ns if k < 6), reverse=True):
\*   S[n] = S[n+1] - d[n+1]
RECURSIVE Downward(_, _, _)
Downward(S, todo, d) ==
    IF todo = {} THEN S
    ELSE LET n == SetMax(todo)
         IN Downward(S @@ (n :> StrainStep(Get(S, n + 1), Get(d, n + 1), 0 - 1)), todo \ {n}, d)

StrainSeries_NoAnchor(all_ns, d) ==
    LET up == Upward((6 :> Num(0)), {k \in all_ns : k > 6}, d)
        all == Downward(up, {k \in all_ns : k < 6}, d)
    IN [n \in DOMAIN all |-> IF n = 6 THEN Get(d, 6) ELSE all[n]]

\* S = {6: 0.0}, then the upward and the downward loop
StrainSeries(all_ns, d) ==
    LET up == Upward((6 :> Num(0)), {k \in all_ns : k > 6}, d)
    IN Downward(up, {k \in all_ns : k < 6}, d)

\* compute_ringstrain_rows(root, unit_transfer_constant=K)
compute_ringstrain_rows(infos, K) ==
    LET maps == build_structure_energy_maps(infos)
        cyclo == maps.cyclo
        methyl == maps.methyl
        dH_by_n == d_by_n(cyclo, methyl, "H_au", K)
        dG_by_n == d_by_n(cyclo, methyl, "G_au", K)
        all_ns == candidate_ns(cyclo, methyl) \cup {3, 4, 5, 6, 7, 8}
        S_H == StrainSeries(all_ns, dH_by_n)
        S_G == StrainSeries(all_ns, dG_by_n)
    IN [rows_by_ring |->
          [n \in all_ns |-> [ring_size |-> n,
                             strain_delta_H_kcal_mol |-> Get(S_H, n),
                             strain_delta_G_kcal_mol |-> Get(S_G, n)]],
        raw |-> [cyclo |-> cyclo, methyl |-> methyl,
                 adjacent_reaction |->
                    [n \in DOMAIN dH_by_n |-> [dH_kcal |-> dH_by_n[n], dG_kcal |-> dG_by_n[n]]]]]

-----------------------------------------------------------------------------
(* Ring_String_Energy/generate_referenced_value_based_on_ORCA.py, the legacy
   generator of the reference values.  It reads the energies of the same
   folders; the conversion factor (2625.5/4.184 in the file) is the parameter
   K, so that both constructions can be run with one constant. *)

\* auto_enthalpy_and_gibbs(prefix, methyl): H and G of the first folder of the
\* ring family
auto_enthalpy_and_gibbs(infos, prefix, methyl) ==
    LET kind == IF methyl THEN "methyl" ELSE "cyclo"
        candidates == {i \in 1..Len(infos) :
                         infos[i].kind = kind /\ infos[i].ring_size = prefix}
        chosen == infos[SetMin(candidates)]
    IN [H |-> chosen.H_total_au, G |-> chosen.G_total_au]

\* ref_dict[n] before it is normalised: ref_dict[8] = 0 and
\* ref_dict[n-1] = energies[n] + ref_dict[n] for n = 8 .. 4
RECURSIVE LegacySum(_, _, _)
LegacySum(energies, key, n) ==
    IF n >= 8 THEN 0
    ELSE energies[n + 1][key] + LegacySum(energies, key, n + 1)

\* main(): energies[n] = (X[methyl(n-1)] - X[cyclo(n)]) * K for n = 4..8, the
\* running sums, and ref_dict[n] -= ref_dict[6] for n = 3..8
main(infos, K) ==
    LET energies ==
          [n \in 4..8 |->
             LET alkane == auto_enthalpy_and_gibbs(infos, n, FALSE)
                 methylcycloalkane == auto_enthalpy_and_gibbs(infos, n - 1, TRUE)
             IN [H |-> (methylcycloalkane.H.v - alkane.H.v) * K,
                 G |-> (methylcycloalkane.G.v - alkane.G.v) * K]]
        ref_dict ==
          [n \in 3..8 |->
             [H |-> LegacySum(energies, "H", n) - LegacySum(energies, "H", 6),
              G |-> LegacySum(energies, "G", n) - LegacySum(energies, "G", 6)]]
    IN [energies |-> energies, ref_dict |-> ref_dict]

-----------------------------------------------------------------------------
(* Helpers of io/fs.py that the scorers call (fs._is_yes, fs._is_no,        *)
(* fs._abs_err), over the token sets of Config/defaults.py                  *)

YES_VALUES == {"yes", "y", "true", "1", "t"}

NO_VALUES == {"no", "n", "false", "0", "f"}

_is_yes(x) == x \in YES_VALUES

_is_no(x) == x \in NO_VALUES

\* None when either value is None, else |gt - pred|
_abs_err(gt, pred) == IF IsNone(gt) \/ IsNone(pred) THEN None ELSE FAbs(FSub(pred, gt))

\* round(x, 3) and round(x, 2) of a point value (ties to even)
RoundTo(x, unit) ==
    LET r == x % unit
        lo == x - r
    IN IF 2 * r < unit THEN lo
       ELSE IF 2 * r > unit THEN lo + unit
       ELSE IF (lo \div unit) % 2 = 0 THEN lo ELSE lo + unit

Round3(x) == RoundTo(x, 6)

Round2(x) == RoundTo(x, 60)

Min2(a, b) == IF a <= b THEN a ELSE b

RECURSIVE SumSeq(_)
SumSeq(q) == IF q = <<>> THEN 0 ELSE Head(q) + SumSeq(Tail(q))

-----------------------------------------------------------------------------
(* Grading/Rubrics/RingStrain.py *)

RUBRIC_RINGSTRAIN ==
    [metadata |-> [n_molecules |-> 11, total_max_points |-> Pt(10000)],
     boolean |->
        [sections |->
            [input_qc |->
                [columns |-> <<"Method exist?", "Basis set exist?", "Tasks exist?",
                               "Charge & mult exist?", "XYZ file exist?",
                               "SCF converged?", "Geo opt converged?", "Imag freq exist?">>,
                 yes_score |-> Pt(50),
                 imag_no_score |-> Pt(50),
                 n_molecules |-> 11,
                 max_points |-> Pt(4400)]],
         total |-> Pt(4400)],
     reference_point |->
        [rule |-> [true_award |-> Pt(800), false_award |-> Pt(0)],
         total |-> Pt(800)],
     numerical |->
        [config |->
            [ring_sizes_for_scoring |-> <<3, 4, 5, 6, 7, 8>>,
             abs_tol_full |-> 2000,
             abs_tol_half |-> 5000,
             per_item_points |-> Pt(400)],
         total |-> Pt(4800)]]

-----------------------------------------------------------------------------
(* Grading/Scorer/RingStrain.py *)

RowPoints_rs_AwardUnlessYes(row, sec) ==
    LET cols == sec.columns
    IN SumSeq([i \in 1..7 |-> IF _is_yes(row[cols[i]]) THEN sec.yes_score ELSE 0])
       + (IF ~_is_yes(row[cols[8]]) THEN sec.imag_no_score ELSE 0)

\* points of one row of the QC table: yes_score for every "yes" among the
\* first seven columns, imag_no_score when the eighth is a "no"
RowPoints_rs(row, sec) ==
    LET cols == sec.columns
    IN SumSeq([i \in 1..7 |-> IF _is_yes(row[cols[i]]) THEN sec.yes_score ELSE 0])
       + (IF _is_no(row[cols[8]]) THEN sec.imag_no_score ELSE 0)

\* score_booleans_ringstrain: the section points are capped to max_points
score_booleans_ringstrain(df, rubric) ==
    LET sec == rubric.boolean.sections.input_qc
        per_row == [i \in 1..Len(df) |-> RowPoints_rs(df[i], sec)]
    IN [points |-> Min2(SumSeq(per_row), sec.max_points),
        max |-> sec.max_points,
        per_row_points |-> per_row]

score_reference_ringstrain(reference_is_cyclohexane, rubric) ==
    LET rsec == rubric.reference_point.rule
    IN [points |-> IF reference_is_cyclohexane THEN rsec.true_award ELSE rsec.false_award,
        max |-> rubric.reference_point.total]

_score_one_MissingAsFull(gt, pred, cfg) ==
    LET err == _abs_err(gt, pred)
    IN IF IsNone(err) THEN [points |-> cfg.per_item_points, reason |-> "full", abs_err |-> None]
       ELSE IF FLe(err, Num(cfg.abs_tol_full))
            THEN [points |-> cfg.per_item_points, reason |-> "full", abs_err |-> err]
       ELSE IF FLe(err, Num(cfg.abs_tol_half))
            THEN [points |-> cfg.per_item_points \div 2, reason |-> "half", abs_err |-> err]
       ELSE [points |-> 0, reason |-> "out_of_range", abs_err |-> err]

_score_one_Strict(gt, pred, cfg) ==
    LET err == _abs_err(gt, pred)
    IN IF IsNone(err) THEN [points |-> 0, reason |-> "missing", abs_err |-> None]
       ELSE IF IsNum(err) /\ err.v < cfg.abs_tol_full
            THEN [points |-> cfg.per_item_points, reason |-> "full", abs_err |-> err]
       ELSE IF IsNum(err) /\ err.v < cfg.abs_tol_half
            THEN [points |-> cfg.per_item_points \div 2, reason |-> "half", abs_err |-> err]
       ELSE [points |-> 0, reason |-> "out_of_range", abs_err |-> err]

_score_one_SwappedAwards(gt, pred, cfg) ==
    LET err == _abs_err(gt, pred)
    IN IF IsNone(err) THEN [points |-> 0, reason |-> "missing", abs_err |-> None]
       ELSE IF FLe(err, Num(cfg.abs_tol_full))
            THEN [points |-> cfg.per_item_points \div 2, reason |-> "full", abs_err |-> err]
       ELSE IF FLe(err, Num(cfg.abs_tol_half))
            THEN [points |-> cfg.per_item_points, reason |-> "half", abs_err |-> err]
       ELSE [points |-> 0, reason |-> "out_of_range", abs_err |-> err]

\* score_numerical_ringstrain._score_one
_score_one(gt, pred, cfg) ==
    LET err == _abs_err(gt, pred)
    IN IF IsNone(err) THEN [points |-> 0, reason |-> "missing", abs_err |-> None]
       ELSE IF FLe(err, Num(cfg.abs_tol_full))
            THEN [points |-> cfg.per_item_points, reason |-> "full", abs_err |-> err]
       ELSE IF FLe(err, Num(cfg.abs_tol_half))
            THEN [points |-> cfg.per_item_points \div 2, reason |-> "half", abs_err |-> err]
       ELSE [points |-> 0, reason |-> "out_of_range", abs_err |-> err]

\* rows.get(n, {}).get(key)
RowGet(rows, n, key) == IF n \in DOMAIN rows THEN rows[n][key] ELSE None

\* the item list of score_numerical_ringstrain: for n in sizes: H item, G item
NumericalItems_GBeforeH(ground_truth_rows, agent_rows, cfg) ==
    LET sizes == cfg.ring_sizes_for_scoring
        item(n, key) ==
            LET gt == RowGet(ground_truth_rows, n, key)
                pred == RowGet(agent_rows, n, key)
                sc == _score_one(gt, pred, cfg)
            IN [ring_size |-> n, metric |-> key, gt |-> gt, pred |-> pred,
                abs_err |-> sc.abs_err, points |-> sc.points, reason |-> sc.reason]
    IN [j \in 1..(2 * Len(sizes)) |->
          IF j % 2 = 1 THEN item(sizes[(j + 1) \div 2], "strain_delta_G_kcal_mol")
          ELSE item(sizes[j \div 2], "strain_delta_H_kcal_mol")]

\* the loop "for n in sizes": the H item, then the G item of every ring size
NumericalItems(ground_truth_rows, agent_rows, cfg) ==
    LET sizes == cfg.ring_sizes_for_scoring
        item(n, key) ==
            LET gt == RowGet(ground_truth_rows, n, key)
                pred == RowGet(agent_rows, n, key)
                sc == _score_one(gt, pred, cfg)
            IN [ring_size |-> n, metric |-> key, gt |-> gt, pred |-> pred,
                abs_err |-> sc.abs_err, points |-> sc.points, reason |-> sc.reason]
    IN [j \in 1..(2 * Len(sizes)) |->
          IF j % 2 = 1 THEN item(sizes[(j + 1) \div 2], "strain_delta_H_kcal_mol")
          ELSE item(sizes[j \div 2], "strain_delta_G_kcal_mol")]

score_numerical_ringstrain(ground_truth_rows, agent_rows, rubric) ==
    LET cfg == rubric.numerical.config
        items == NumericalItems(ground_truth_rows, agent_rows, cfg)
        total == SumSeq([j \in 1..Len(items) |-> items[j].points])
    IN [points |-> Min2(total, rubric.numerical.total),
        items |-> items,
        max |-> rubric.numerical.total]

score_ringstrain(booleans, ground_truth_rows, agent_rows, reference_is_cyclohexane, rubric) ==
    LET b == score_booleans_ringstrain(booleans, rubric)
        r == score_reference_ringstrain(reference_is_cyclohexane, rubric)
        n == score_numerical_ringstrain(ground_truth_rows, agent_rows, rubric)
    IN [boolean_points |-> b.points,
        boolean_details |-> b,
        reference_points |-> r.points,
        numerical_points |-> n.points,
        numerical_details |-> n,
        total_points |-> Round3(b.points + r.points + n.points),
        max_points |-> rubric.metadata.total_max_points]

-----------------------------------------------------------------------------
(* Registry/jobs/RingStrain.py *)

\* A path is the sequence of its components.  The data set lives in
\* DatasetRoot; a calculation folder is DatasetRoot \o <<name>>.
DatasetRoot == <<"root">>

\* os.path.commonpath: the longest common prefix, by components
CommonPath(paths) ==
    LET p0 == CHOOSE p \in paths : TRUE
        agree(i) == \A p \in paths : Len(p) >= i /\ p[i] = p0[i]
        ks == {i \in 0..Len(p0) : \A j \in 1..i : agree(j)}
    IN SubSeq(p0, 1, SetMax(ks))

\* _common_root_from_paths: None (here <<>>) when no row carries a path
_common_root_from_paths(paths) ==
    IF paths = {} THEN <<>> ELSE CommonPath(paths)

\* pd.DataFrame(gt_numeric): a column holding floats and None is a float64
\* column, its None cells read back as NaN; a column of None only stays None
DataFrameCell(gt_numeric, i, key) ==
    LET someNum == \E j \in 1..Len(gt_numeric) : IsNum(gt_numeric[j][key])
    IN IF IsNone(gt_numeric[i][key]) /\ someNum THEN NaN ELSE gt_numeric[i][key]

\* what build_structure_energy_maps(root) classifies under root: the data set
\* when root is the data-set root, nothing when root is a calculation folder
\* (it has no sub-folders)
ClassifiedUnder(root, dataset) == IF root = DatasetRoot THEN dataset ELSE <<>>

\* _overlay_energies_from_gt._apply: the energies of the last row of the
\* folder replace the record's own, when they are not None
Overlay(rec, gt_numeric) ==
    LET hits == {i \in 1..Len(gt_numeric) : gt_numeric[i].FolderPath = rec.folder}
    IN IF hits = {} THEN rec
       ELSE LET i == SetMax(hits)
                H == DataFrameCell(gt_numeric, i, "H_total_au")
                G == DataFrameCell(gt_numeric, i, "G_total_au")
            IN [folder |-> rec.folder,
                H_au |-> IF ~IsNone(H) THEN H ELSE rec.H_au,
                G_au |-> IF ~IsNone(G) THEN G ELSE rec.G_au]

_overlay_energies_from_gt(map, gt_numeric) ==
    [n \in DOMAIN map |-> Overlay(map[n], gt_numeric)]

\* step 4 of _score_rs, one energy: dX = (float(Xm) - float(Xc)) * _HARTREE_TO_KCAL
score_rs_AdjacentDelta(cyclo, methyl, n, key) ==
    LET cyc == Get(cyclo, n)
        met == Get(methyl, n - 1)
    IN IF n \in DOMAIN cyclo /\ (n - 1) \in DOMAIN methyl
       THEN IF ~IsNone(met[key]) /\ ~IsNone(cyc[key])
            THEN FMul(FSub(met[key], cyc[key]), Num(HARTREE_TO_KCAL))
            ELSE None
       ELSE None

\* gt_rows of _score_rs: the rows of the rubric's ring sizes
score_rs_gt_rows(all_ns, rubric_sizes, S_H, S_G) ==
    [n \in all_ns \cap rubric_sizes |->
        [ring_size |-> n,
         strain_delta_H_kcal_mol |-> Get(S_H, n),
         strain_delta_G_kcal_mol |-> Get(S_G, n)]]

\* _score_rs(booleans, gt_numeric, agent_numeric, rubric); dataset is what the
\* folders of the data-set root classify to
_score_rs(booleans, gt_numeric, agent_numeric, rubric, dataset) ==
    LET folder_paths == {gt_numeric[i].FolderPath : i \in 1..Len(gt_numeric)} \ {<<>>}
        root == _common_root_from_paths(folder_paths)
    IN IF root = <<>>
       THEN [root |-> root,
             cyclo |-> EmptyDict, methyl |-> EmptyDict,
             dH_by_n |-> EmptyDict, dG_by_n |-> EmptyDict,
             ground_truth_rows |-> EmptyDict,
             report |-> score_ringstrain(booleans, EmptyDict, agent_numeric.rows,
                                         agent_numeric.reference_is_cyclohexane, rubric)]
       ELSE
         LET maps == build_structure_energy_maps(ClassifiedUnder(root, dataset))
             cyclo == _overlay_energies_from_gt(maps.cyclo, gt_numeric)
             methyl == _overlay_energies_from_gt(maps.methyl, gt_numeric)
             cand == candidate_ns(cyclo, methyl)
             dH_by_n == [n \in cand |-> score_rs_AdjacentDelta(cyclo, methyl, n, "H_au")]
             dG_by_n == [n \in cand |-> score_rs_AdjacentDelta(cyclo, methyl, n, "G_au")]
             sizes == rubric.numerical.config.ring_sizes_for_scoring
             rubric_sizes == {sizes[i] : i \in 1..Len(sizes)}
             all_ns == cand \cup rubric_sizes \cup {6}
             S_H == StrainSeries(all_ns, dH_by_n)
             S_G == StrainSeries(all_ns, dG_by_n)
             gt_rows == score_rs_gt_rows(all_ns, rubric_sizes, S_H, S_G)
         IN [root |-> root,
             cyclo |-> cyclo, methyl |-> methyl,
             dH_by_n |-> dH_by_n, dG_by_n |-> dG_by_n,
             ground_truth_rows |-> gt_rows,
             report |-> score_ringstrain(booleans, gt_rows, agent_numeric.rows,
                                         agent_numeric.reference_is_cyclohexane, rubric)]

-----------------------------------------------------------------------------
(* The data sets of the ring-strain runs *)

\* at most MaxRecords classified folders in a sparse data set
MaxRecords == 2

\* at most MaxDefects defects (a missing folder, a missing H, a missing G)
\* in an otherwise complete data set
MaxDefects == 2

\* total energies, 10^-3 Eh; cyclo(6) and methyl(5) are the specification's
\* scenario (H = -1.000, G = -1.100 and H = -1.050, G = -1.140)
EnergyTable ==
    [cyclo |-> [H |-> (3 :> -500) @@ (4 :> -670) @@ (5 :> -830) @@ (6 :> -1000)
                      @@ (7 :> -1170) @@ (8 :> -1340) @@ (9 :> -1500),
                G |-> (3 :> -540) @@ (4 :> -715) @@ (5 :> -880) @@ (6 :> -1100)
                      @@ (7 :> -1230) @@ (8 :> -1390) @@ (9 :> -1560)],
     methyl |-> [H |-> (3 :> -668) @@ (4 :> -833) @@ (5 :> -1050) @@ (6 :> -1172)
                       @@ (7 :> -1337) @@ (8 :> -1503),
                 G |-> (3 :> -716) @@ (4 :> -879) @@ (5 :> -1140) @@ (6 :> -1227)
                       @@ (7 :> -1395) @@ (8 :> -1555)]]

RingSlots == {<<"cyclo", n>> : n \in 3..9} \cup {<<"methyl", m>> : m \in 3..8}

\* the slots of the complete ladder 3..8: cyclo(4..8) and methyl(3..7)
CoreSlots == {<<"cyclo", n>> : n \in 4..8} \cup {<<"methyl", m>> : m \in 3..7}

\* what _classify_folder returns for a folder of the slot; variant "b" is a
\* second folder of the same structure class with other energies
Info(slot, variant, hasH, hasG) ==
    LET e == EnergyTable[slot[1]]
        dh == IF variant = "b" THEN 7 ELSE 0
        dg == IF variant = "b" THEN 0 - 4 ELSE 0
    IN [kind |-> slot[1],
        ring_size |-> slot[2],
        H_total_au |-> IF hasH THEN Num(e.H[slot[2]] + dh) ELSE None,
        G_total_au |-> IF hasG THEN Num(e.G[slot[2]] + dg) ELSE None,
        folder |-> DatasetRoot \o <<<<slot[1], slot[2], variant>>>>]

\* scan order of the folders
OrderKey(info) ==
    LET name == info.folder[2]
        vbit == IF name[3] = "a" THEN 0 ELSE 1
    IN 4 * name[2] + (IF name[1] = "methyl" THEN 2 ELSE 0)
       + (IF name[2] % 2 = 1 THEN vbit ELSE 1 - vbit)

RECURSIVE InScanOrder(_)
InScanOrder(S) ==
    IF S = {} THEN <<>>
    ELSE LET x == CHOOSE y \in S : \A z \in S : OrderKey(y) <= OrderKey(z)
         IN <<x>> \o InScanOrder(S \ {x})

\* all subsets of P with at most k elements
RECURSIVE UpTo(_, _)
UpTo(P, k) ==
    IF k = 0 THEN {{}}
    ELSE LET prev == UpTo(P, k - 1)
         IN prev \cup {s \cup {x} : s \in prev, x \in P}

\* the slots that may have a second folder, and those that may lack an energy
VariantSlots == {<<"cyclo", 6>>, <<"cyclo", 7>>, <<"methyl", 5>>, <<"methyl", 3>>}

EnergyDefectSlots == {<<"cyclo", 6>>, <<"cyclo", 4>>, <<"methyl", 6>>, <<"methyl", 3>>}

\* up to MaxRecords folders, of any structure class
SparseDatasets ==
    {InScanOrder(S) :
       S \in UpTo({Info(sl, "a", TRUE, TRUE) : sl \in RingSlots}
                  \cup {Info(sl, "b", TRUE, TRUE) : sl \in VariantSlots}, MaxRecords)}

\* the complete ladder with up to MaxDefects defects
DenseDatasets ==
    {InScanOrder({Info(sl, "a", <<sl, "dropH">> \notin D, <<sl, "dropG">> \notin D) :
                    sl \in {c \in CoreSlots : <<c, "remove">> \notin D}}) :
       D \in UpTo((CoreSlots \X {"remove"}) \cup (EnergyDefectSlots \X {"dropH", "dropG"}),
                  MaxDefects)}

Datasets == SparseDatasets \cup DenseDatasets

CompleteDataset == InScanOrder({Info(sl, "a", TRUE, TRUE) : sl \in CoreSlots})

\* the aggregated per-folder rows the runner hands to _score_rs
GtModes == {"none", "same", "other", "first"}

GtRowOf(info, mode) ==
    [Folder |-> info.folder[2],
     FolderPath |-> info.folder,
     H_total_au |-> IF mode = "other" THEN Num(EnergyTable[info.kind].H[info.ring_size] + 1)
                    ELSE info.H_total_au,
     G_total_au |-> IF mode = "other" THEN None ELSE info.G_total_au]

GtNumeric(dataset, mode) ==
    IF mode = "none" THEN <<>>
    ELSE IF mode = "first" THEN [i \in 1..Min2(1, Len(dataset)) |-> GtRowOf(dataset[i], mode)]
    ELSE [i \in 1..Len(dataset) |-> GtRowOf(dataset[i], mode)]

\* the strain values of the complete data set, as a report states them
ReportedStrain ==
    [H |-> (3 :> 320025) @@ (4 :> 332575) @@ (5 :> 313750) @@ (6 :> 0)
           @@ (7 :> -12550) @@ (8 :> 6275),
     G |-> (3 :> 251000) @@ (4 :> 244725) @@ (5 :> 251000) @@ (6 :> 0)
           @@ (7 :> 18825) @@ (8 :> -12550)]

\* deviations of a report that is off: on a tolerance, just past it, absent
OffBy == (3 :> 2000) @@ (4 :> 2001) @@ (5 :> -5000) @@ (6 :> 5001) @@ (7 :> -2001) @@ (8 :> 0)

AgentProfiles == {"none", "exact", "off"}

AgentNumeric(profile) ==
    IF profile = "none"
    THEN [rows |-> EmptyDict, reference_is_cyclohexane |-> FALSE]
    ELSE IF profile = "exact"
    THEN [rows |-> [n \in 3..8 |->
                      [ring_size |-> n,
                       strain_delta_H_kcal_mol |-> Num(ReportedStrain.H[n]),
                       strain_delta_G_kcal_mol |-> Num(ReportedStrain.G[n])]],
          reference_is_cyclohexane |-> TRUE]
    ELSE [rows |-> [n \in 3..7 |->
                      [ring_size |-> n,
                       strain_delta_H_kcal_mol |-> Num(ReportedStrain.H[n] + OffBy[n]),
                       strain_delta_G_kcal_mol |->
                          IF n = 7 THEN None ELSE Num(ReportedStrain.G[n] + OffBy[n + 1])]],
          reference_is_cyclohexane |-> FALSE]

\* a QC row: the first `yes` columns are "yes", the others "no"; the
\* imaginary-frequency column holds imag
QcRow(yes, imag) ==
    LET cols == RUBRIC_RINGSTRAIN.boolean.sections.input_qc.columns
    IN [c \in {cols[i] : i \in 1..8} |->
          IF c = cols[8] THEN imag
          ELSE IF \E i \in 1..yes : cols[i] = c THEN "yes" ELSE "no"]

\* the QC table of a run: one clean row per aggregated folder
QcTable(gt_numeric) == [i \in 1..Len(gt_numeric) |-> QcRow(7, "no")]

-----------------------------------------------------------------------------
(* The ring-strain runs: one data set, then one call *)

\* the primary output of the folder of a record: none, or a text with some
\* of the three energy lines; the electronic energy lies 0.013 Eh below the
\* enthalpy
OutputsOf(info) ==
    LET e == EnergyTable[info.kind]
        lines == <<[k |-> "sp_energy", v |-> e.H[info.ring_size] - 13],
                   [k |-> "enthalpy", v |-> e.H[info.ring_size]],
                   [k |-> "gibbs", v |-> e.G[info.ring_size]]>>
    IN {<<>>} \cup {<<SelectSeq(lines, LAMBDA l : l.k \in present)>> :
                      present \in SUBSET {"sp_energy", "enthalpy", "gibbs"}}

\* the records whose output text the runs vary
ReadSlots == {<<"cyclo", 6>>, <<"methyl", 5>>, <<"cyclo", 4>>}


\* what the geometry of one more folder gives, and what its name holds
MolOutcomes ==
    {[k |-> "nomol", n |-> 0], [k |-> "other", n |-> 0],
     [k |-> "cyclo", n |-> 5], [k |-> "methyl", n |-> 4]}

FolderNameFeatures ==
    {[formula |-> f, methyl_marker |-> m] : f \in {<<>>, <<6>>, <<7>>}, m \in BOOLEAN}

\* the folder of the run that is classified from its geometry and name; its
\* output holds an enthalpy and a Gibbs energy
ExtraFolder == DatasetRoot \o <<<<"extra", 0, "a">>>>

ExtraOutput == <<<<[k |-> "enthalpy", v |-> -999], [k |-> "gibbs", v |-> -1001]>>>>

\* the data sets of the complete ladder: every folder of cyclo(4..8) and
\* methyl(3..7) once, with H and G
IsCompleteLadder(infos) ==
    /\ Len(infos) = Cardinality(CoreSlots)
    /\ \A sl \in CoreSlots :
          \E i \in 1..Len(infos) :
             /\ infos[i].kind = sl[1] /\ infos[i].ring_size = sl[2]
             /\ IsNum(infos[i].H_total_au) /\ IsNum(infos[i].G_total_au)

\* shifts of the energies of one folder, 10^-3 Eh
EnergyShifts == {[H |-> 0, G |-> 0], [H |-> 4, G |-> 0 - 3], [H |-> 0 - 60, G |-> 55]}

ShiftedEnergies(infos, i, shift) ==
    [infos EXCEPT ![i] = [@ EXCEPT !.H_total_au = Num(@.v + shift.H),
                                   !.G_total_au = Num(@.v + shift.G)]]

InitLadder ==
    /\ call = "start"
    /\ args \in {[dataset |-> D] : D \in Datasets}
    /\ ret = <<>>

\* ringstrain_calc.compute_ringstrain_rows(root, unit_transfer_constant=K)
ComputeRingstrainRows ==
    /\ call = "start"
    /\ \E K \in {HARTREE_TO_KCAL, 1} :
         /\ call' = "compute_ringstrain_rows"
         /\ args' = [dataset |-> args.dataset, unit_transfer_constant |-> K]
         /\ ret' = compute_ringstrain_rows(args.dataset, K)

\* Registry/jobs/RingStrain._score_rs on the rows the runner aggregated
ScoreRS ==
    /\ call = "start"
    /\ \E mode \in GtModes, profile \in AgentProfiles :
         LET gt_numeric == GtNumeric(args.dataset, mode)
             agent_numeric == AgentNumeric(profile)
             booleans == QcTable(gt_numeric)
         IN /\ call' = "_score_rs"
            /\ args' = [dataset |-> args.dataset, gt_numeric |-> gt_numeric,
                        agent_numeric |-> agent_numeric, booleans |-> booleans]
            /\ ret' = _score_rs(booleans, gt_numeric, agent_numeric,
                                RUBRIC_RINGSTRAIN, args.dataset)

\* compute_ringstrain_rows on a data set in which the energies of one folder
\* are read from its output text
ComputeFromOutput ==
    /\ call = "start"
    /\ \E i \in 1..Len(args.dataset) :
         /\ <<args.dataset[i].kind, args.dataset[i].ring_size>> \in ReadSlots
         /\ \E outp \in OutputsOf(args.dataset[i]) :
              LET info == _classify_folder(args.dataset[i].kind, args.dataset[i].ring_size,
                                           args.dataset[i].folder, outp)
                  dataset == [args.dataset EXCEPT ![i] = info]
              IN /\ call' = "compute_ringstrain_rows"
                 /\ args' = [dataset |-> dataset, unit_transfer_constant |-> HARTREE_TO_KCAL,
                             read |-> i, outp |-> outp]
                 /\ ret' = compute_ringstrain_rows(dataset, HARTREE_TO_KCAL)

\* build_structure_energy_maps on the data set and one more folder, scanned
\* before or after the others
BuildStructureEnergyMaps ==
    /\ call = "start"
    /\ \E mol \in MolOutcomes, name \in FolderNameFeatures, first \in BOOLEAN :
         LET info == ClassifyFolder(mol, name, ExtraFolder, ExtraOutput)
             infos == IF first THEN info \o args.dataset ELSE args.dataset \o info
         IN /\ call' = "build_structure_energy_maps"
            /\ args' = [dataset |-> args.dataset, mol |-> mol, name |-> name,
                        folder |-> ExtraFolder, first |-> first]
            /\ ret' = [info |-> info, maps |-> build_structure_energy_maps(infos)]

\* the legacy generator and the structure-based ladder (compute_ringstrain_rows
\* and _score_rs) on the same complete set of energies
GenerateReferencedValues ==
    /\ call = "start"
    /\ IsCompleteLadder(args.dataset)
    /\ \E i \in 1..Len(args.dataset), shift \in EnergyShifts :
         LET dataset == ShiftedEnergies(args.dataset, i, shift)
             gt_numeric == GtNumeric(dataset, "same")
         IN /\ call' = "main"
            /\ args' = [dataset |-> dataset, unit_transfer_constant |-> HARTREE_TO_KCAL]
            /\ ret' = [legacy |-> main(dataset, HARTREE_TO_KCAL),
                       rows_by_ring |->
                          compute_ringstrain_rows(dataset, HARTREE_TO_KCAL).rows_by_ring,
                       ground_truth_rows |->
                          _score_rs(QcTable(gt_numeric), gt_numeric, AgentNumeric("none"),
                                    RUBRIC_RINGSTRAIN, dataset).ground_truth_rows]

NextLadder ==
    \/ ComputeRingstrainRows
    \/ ScoreRS
    \/ ComputeFromOutput
    \/ BuildStructureEnergyMaps
    \/ GenerateReferencedValues

SpecLadder == InitLadder /\ [][NextLadder]_vars

-----------------------------------------------------------------------------
(* Grading/Rubrics/pKa.py; the pKa windows are in 10^-2 pKa units *)

RUBRIC_PKA ==
    [metadata |-> [n_molecules |-> 8, total_max_points |-> Pt(10000)],
     boolean |->
        [sections |->
            [input_qc |->
                [columns |-> <<"Method exist?", "Basis set exist?", "Tasks exist?",
                               "Charge & mult exist?", "XYZ file exist?",
                               "SCF converged?", "Geo opt converged?", "Imag freq exist?">>,
                 yes_score |-> Pt(100),
                 imag_no_score |-> Pt(100),
                 max_points |-> Pt(6400)],
             delta_g |-> [n_items |-> 8, per_yes |-> Pt(150), max_points |-> Pt(1200)]],
         total |-> Pt(7600)],
     numerical |->
        [criteria |->
            [linear_regression |-> [weight |-> Pt(1200)],
             pka_value |-> [full |-> [min |-> 140, max |-> 160, award |-> Pt(1200)],
                            half |-> [min |-> 120, max |-> 180, award |-> Pt(600)]]],
         total |-> Pt(2400)]]

-----------------------------------------------------------------------------
(* Grading/Scorer/pKa.py.  RUBRIC is RUBRIC_PKA.  A QC table carries the
   rubric's column names; a cell that is not filled in is "". *)

\* row.get(c)
Cell(row, c) == IF c \in DOMAIN row THEN row[c] ELSE ""

\* A value read from the report: nothing, a float, a string that spells a
\* null ("n/a", "none", ...), a string with a number in it, or another string.
\* _coerce_float gives None for the null spellings and for a string without a
\* number, the float itself, and the first number found in a string.
_coerce_float(x) ==
    IF x.k \in {"none", "text_null", "text_other"} THEN None
    ELSE Num(x.v)

\* one row of input_qc: rp += yes_score for cols[:7], imag_score for cols[7]
RowPoints_pka(r, cols, yes_score, imag_score) ==
    SumSeq([i \in 1..7 |-> IF _is_yes(Cell(r, cols[i])) THEN yes_score ELSE 0])
    + (IF _is_no(Cell(r, cols[8])) THEN imag_score ELSE 0)

\* the input_qc loop of score_boolean_pka: the sum of the row points, with
\* "no extra cap here"
input_qc_pka(input_qc_rows, icfg) ==
    LET per_row == [i \in 1..Len(input_qc_rows) |->
                      RowPoints_pka(input_qc_rows[i], icfg.columns,
                                    icfg.yes_score, icfg.imag_no_score)]
    IN [points |-> SumSeq(per_row),
        max |-> icfg.max_points,
        per_row_points |-> per_row]

\* the delta_g branch of score_boolean_pka; the items are the flag values
\* PKaJob.score_all passes
delta_g_pka(delta_g_items, dcfg) ==
    IF delta_g_items = <<>>
    THEN [points |-> 0, max |-> dcfg.max_points, rows_seen |-> 0, yes_count_capped |-> 0]
    ELSE LET yes_count == Cardinality({i \in 1..Len(delta_g_items) : _is_yes(delta_g_items[i])})
             yes_capped == Min2(yes_count, dcfg.n_items)
         IN [points |-> Min2(yes_capped * dcfg.per_yes, dcfg.max_points),
             max |-> dcfg.max_points,
             rows_seen |-> Len(delta_g_items),
             yes_count_capped |-> yes_capped]

score_boolean_pka(input_qc_rows, delta_g_items) ==
    LET sections == RUBRIC_PKA.boolean.sections
        iq == input_qc_pka(input_qc_rows, sections.input_qc)
        dg == delta_g_pka(delta_g_items, sections.delta_g)
    IN [points |-> iq.points + dg.points,
        input_qc |-> iq,
        delta_g |-> dg,
        max |-> RUBRIC_PKA.boolean.total]

score_numerical_pka(md_extraction) ==
    LET crit == RUBRIC_PKA.numerical.criteria
        lin_ok == _is_yes(md_extraction.has_linear_regression_model)
        pka_val == _coerce_float(md_extraction.pKa_of_chlorofluoroacetic_acid)
        full_win == crit.pka_value.full
        half_win == crit.pka_value.half
        pka_points ==
            IF IsNone(pka_val) THEN 0
            ELSE IF full_win.min <= pka_val.v /\ pka_val.v <= full_win.max THEN full_win.award
            ELSE IF half_win.min <= pka_val.v /\ pka_val.v <= half_win.max THEN half_win.award
            ELSE 0
    IN [points |-> (IF lin_ok THEN crit.linear_regression.weight ELSE 0) + pka_points,
        linear_regression_found |-> lin_ok,
        pka_extracted |-> pka_val,
        pka_points |-> pka_points,
        max |-> RUBRIC_PKA.numerical.total]

score_pka_case(section1_rows, section2_deltag_items, md_extraction) ==
    LET b == score_boolean_pka(section1_rows, section2_deltag_items)
        n == score_numerical_pka(md_extraction)
    IN [boolean_points |-> b.points,
        boolean_details |-> b,
        numerical_points |-> n.points,
        numerical_details |-> n,
        total_points |-> Round3(b.points + n.points),
        rubric_max |-> [boolean_total |-> RUBRIC_PKA.boolean.total,
                        numerical_total |-> RUBRIC_PKA.numerical.total,
                        total |-> RUBRIC_PKA.metadata.total_max_points]]

-----------------------------------------------------------------------------
(* Grading/Rubrics/TDDFT.py; relative tolerances are in 10^-4 *)

RUBRIC_TDDFT ==
    [boolean |->
        [input |->
            [columns |-> <<"Method exist?", "Basis set exist?", "Tasks exist?",
                           "Charge & mult exist?", "XYZ file exist?">>,
             yes_score |-> Pt(300), multiplicity |-> 2, max_points |-> Pt(3000)],
         common_output |->
            [columns |-> <<"SCF converged?">>,
             yes_score |-> Pt(300), multiplicity |-> 2, max_points |-> Pt(600)],
         opt_output |->
            [columns_yes |-> <<"Geo opt converged?">>,
             columns_no |-> <<"Imag freq exist?">>,
             yes_score |-> Pt(300), no_score |-> Pt(300), max_points |-> Pt(600)],
         tddft_output |->
            [columns |-> <<"TDDFT block executed?", "Excitation energy exist?",
                           "Oscillator strengths available?">>,
             yes_score |-> Pt(300), max_points |-> Pt(900)],
         total |-> Pt(5100)],
     numerical |->
        [criteria |->
            [S1_energy_eV |->
                [weight |-> Pt(1500), full_rel |-> 1000, half_rel |-> 2000,
                 require_json_proof |-> FALSE],
             S1_T1_gap_eV |->
                [weight |-> Pt(1500), full_rel |-> 1000, half_rel |-> 2000,
                 require_json_proof |-> TRUE],
             S1_oscillator_strength |->
                [weight |-> Pt(1900), full_rel |-> 1000, half_rel |-> 2000,
                 require_json_proof |-> FALSE]],
         total |-> Pt(4900)],
     total_points |-> Pt(10000)]

\* the criteria in the order the rubric lists them
TddftMetrics == <<"S1_energy_eV", "S1_T1_gap_eV", "S1_oscillator_strength">>

-----------------------------------------------------------------------------
(* Grading/Scorer/TDDFT.py *)

\* a relative error is carried in 10^-4, rounded up, so that comparing it with
\* a tolerance decides exactly as comparing the quotient does
CeilDiv(a, b) == (a + b - 1) \div b

\* None when a value is None or the ground truth is 0, else |pred - gt| / |gt|
_rel_err(gt, pred) ==
    IF IsNone(gt) \/ IsNone(pred) THEN None
    ELSE IF ~IsNum(gt) \/ ~IsNum(pred) THEN NaN
    ELSE IF gt.v = 0 THEN None
    ELSE Num(CeilDiv(FAbs(FSub(pred, gt)).v * 10000, FAbs(gt).v))

\* the sum of the row points, times the multiplicity, capped to max_points
SectionOfRows(per_row, sec, multiplicity) ==
    [points |-> Min2(SumSeq(per_row) * multiplicity, sec.max_points),
     max |-> sec.max_points,
     per_row |-> per_row]

\* sum(sec["yes_score"] for c in cols if _is_yes(row.get(c)))
YesPoints(row, cols, yes_score) ==
    SumSeq([i \in 1..Len(cols) |-> IF _is_yes(Cell(row, cols[i])) THEN yes_score ELSE 0])

score_booleans_tddft(df, rubric) ==
    LET bol == rubric.boolean
        inp(row) == YesPoints(row, bol.input.columns, bol.input.yes_score)
        scf(row) == YesPoints(row, bol.common_output.columns, bol.common_output.yes_score)
        opt(row) == (IF _is_yes(Cell(row, bol.opt_output.columns_yes[1]))
                     THEN bol.opt_output.yes_score ELSE 0)
                    + (IF _is_no(Cell(row, bol.opt_output.columns_no[1]))
                       THEN bol.opt_output.no_score ELSE 0)
        tdd(row) == YesPoints(row, bol.tddft_output.columns, bol.tddft_output.yes_score)
        rows(RowPts(_)) == [i \in 1..Len(df) |-> RowPts(df[i])]
        sections ==
            [input |-> SectionOfRows(rows(inp), bol.input, bol.input.multiplicity),
             common_output |-> SectionOfRows(rows(scf), bol.common_output,
                                             bol.common_output.multiplicity),
             opt_output |-> SectionOfRows(rows(opt), bol.opt_output, 1),
             tddft_output |-> SectionOfRows(rows(tdd), bol.tddft_output, 1)]
    IN [points |-> sections.input.points + sections.common_output.points
                   + sections.opt_output.points + sections.tddft_output.points,
        sections |-> sections,
        max |-> bol.total]

score_metric_tddft_ProofIgnored(gt, pred, cfg, json_proof) ==
    LET rel == _rel_err(gt, pred)
        w == cfg.weight
    IN IF IsNone(rel)
       THEN [points |-> 0, gt |-> gt, pred |-> pred, rel_err |-> rel,
             reason |-> "missing"]
       ELSE IF FLe(rel, Num(cfg.full_rel))
       THEN [points |-> w, gt |-> gt, pred |-> pred, rel_err |-> rel,
             reason |-> "full"]
       ELSE IF FLe(rel, Num(cfg.half_rel))
       THEN [points |-> w \div 2, gt |-> gt, pred |-> pred, rel_err |-> rel,
             reason |-> "half"]
       ELSE [points |-> 0, gt |-> gt, pred |-> pred, rel_err |-> rel,
             reason |-> "out_of_range"]

\* one pass of the loop over the criteria of score_numerical_tddft
score_metric_tddft(gt, pred, cfg, json_proof) ==
    LET rel == _rel_err(gt, pred)
        w == cfg.weight
    IN IF cfg.require_json_proof /\ ~json_proof
       THEN [points |-> 0, gt |-> gt, pred |-> pred, rel_err |-> rel, reason |-> "no_json_proof"]
       ELSE IF IsNone(rel)
       THEN [points |-> 0, gt |-> gt, pred |-> pred, rel_err |-> rel,
             reason |-> "missing"]
       ELSE IF FLe(rel, Num(cfg.full_rel))
       THEN [points |-> w, gt |-> gt, pred |-> pred, rel_err |-> rel,
             reason |-> "full"]
       ELSE IF FLe(rel, Num(cfg.half_rel))
       THEN [points |-> w \div 2, gt |-> gt, pred |-> pred, rel_err |-> rel,
             reason |-> "half"]
       ELSE [points |-> 0, gt |-> gt, pred |-> pred, rel_err |-> rel,
             reason |-> "out_of_range"]

score_numerical_tddft(ground_truth, agent, json_proof, rubric) ==
    LET crits == rubric.numerical.criteria
        metrics == [name \in DOMAIN crits |->
                      score_metric_tddft(Get(ground_truth, name), Get(agent, name),
                                         crits[name], json_proof)]
        total == SumSeq([i \in 1..Len(TddftMetrics) |-> metrics[TddftMetrics[i]].points])
    IN [points |-> Min2(total, rubric.numerical.total),
        metrics |-> metrics,
        max |-> rubric.numerical.total]

score_tddft_case(booleans, gt_numeric, agent_numeric, json_proof, rubric) ==
    LET b == score_booleans_tddft(booleans, rubric)
        n == score_numerical_tddft(gt_numeric, agent_numeric, json_proof, rubric)
    IN [boolean_points |-> b.points,
        boolean_details |-> b,
        numerical_points |-> n.points,
        numerical_details |-> n,
        total_points |-> Round3(b.points + n.points)]

-----------------------------------------------------------------------------
(* Grading/Rubrics/Fukui.py *)

FukuiWeights == [weight_667 |-> Pt(667), weight_666 |-> Pt(666)]

FukuiCriterion(w) == [weight |-> w, full_rel |-> 1000, half_rel |-> 2000]

RUBRIC_FUKUI ==
    [metadata |-> [total_max_points |-> Pt(10000)],
     boolean |->
        [sections |->
            [input_files |->
                [columns |-> <<"OPT_input_exist?", "OPT_task_match?", "OPT_structure_valid?",
                               "Anion_input_exist?", "Anion_task_match?",
                               "Anion_structure_valid?",
                               "Neutral_input_exist?", "Neutral_task_match?",
                               "Neutral_structure_valid?",
                               "Cation_input_exist?", "Cation_task_match?",
                               "Cation_structure_valid?">>,
                 yes_score |-> Pt(250), max_points |-> Pt(3000)],
             opt_output |->
                [columns |-> <<"OPT_SCF_converged?", "OPT_geo_opt_converged?",
                               "OPT_imag_freq_not_exist?">>,
                 yes_score |-> Pt(100), max_points |-> Pt(300)],
             sp_populations |->
                [columns |-> <<"Neutral_SCF_converged?", "Neutral_Mulliken_exist?",
                               "Neutral_Hirshfeld_exist?", "Neutral_Loewdin_exist?",
                               "Anion_SCF_converged?", "Anion_Mulliken_exist?",
                               "Anion_Hirshfeld_exist?", "Anion_Loewdin_exist?",
                               "Cation_SCF_converged?", "Cation_Mulliken_exist?",
                               "Cation_Hirshfeld_exist?", "Cation_Loewdin_exist?">>,
                 yes_score |-> Pt(225), max_points |-> Pt(2700)]],
         total |-> Pt(6000)],
     numerical |->
        [criteria |->
            [f_plus_Mulliken |-> FukuiCriterion(FukuiWeights.weight_667),
             f_minus_Mulliken |-> FukuiCriterion(FukuiWeights.weight_667),
             f_plus_Hirshfeld |-> FukuiCriterion(FukuiWeights.weight_667),
             f_minus_Hirshfeld |-> FukuiCriterion(FukuiWeights.weight_667),
             f_plus_Loewdin |-> FukuiCriterion(FukuiWeights.weight_666),
             f_minus_Loewdin |-> FukuiCriterion(FukuiWeights.weight_666)],
         total |-> Pt(4000)]]

\* the criteria in the order the rubric lists them
FukuiMetrics ==
    <<"f_plus_Mulliken", "f_minus_Mulliken", "f_plus_Hirshfeld", "f_minus_Hirshfeld",
      "f_plus_Loewdin", "f_minus_Loewdin">>

-----------------------------------------------------------------------------
(* Grading/Scorer/Fukui.py; Fukui indices are in 10^-4.  Grading/utils:
   find_column_fuzzy raises KeyError for a column the row does not have,
   is_yes is the yes-token test, rel_error is None for a zero ground truth,
   abs_error is |pred - gt|. *)

is_yes(x) == x \in YES_VALUES

rel_error(gt, pred) == _rel_err(gt, pred)

abs_error(gt, pred) == _abs_err(gt, pred)

\* one section of score_booleans_fukui over the single row
score_section_fukui(row, sec_cfg) ==
    LET columns == sec_cfg.columns
        breakdown == [c \in {columns[i] : i \in 1..Len(columns)} |->
                        IF c \notin DOMAIN row THEN "missing"
                        ELSE IF is_yes(row[c]) THEN "pass" ELSE "fail"]
        sec_earned == SumSeq([i \in 1..Len(columns) |->
                        IF breakdown[columns[i]] = "pass" THEN sec_cfg.yes_score ELSE 0])
    IN [points |-> Min2(sec_earned, sec_cfg.max_points),
        max |-> sec_cfg.max_points,
        breakdown |-> breakdown]

\* booleans is the row dict, or the first row of the data frame ({} if empty)
score_booleans_fukui(booleans, rubric) ==
    LET secs == rubric.boolean.sections
        sections == [k \in DOMAIN secs |-> score_section_fukui(booleans, secs[k])]
    IN [points |-> sections.input_files.points + sections.opt_output.points
                   + sections.sp_populations.points,
        sections |-> sections,
        max |-> rubric.boolean.total]

\* one atom of a metric: the status and the points
score_atom_fukui(g_val, a_val, cfg, pts_per_atom) ==
    LET rel == rel_error(g_val, a_val)
        ae == abs_error(g_val, a_val)
    IN IF ~IsNone(rel)
       THEN (IF FLe(rel, Num(cfg.full_rel)) THEN [status |-> "full", p |-> pts_per_atom]
             ELSE IF FLe(rel, Num(cfg.half_rel)) THEN [status |-> "half", p |-> pts_per_atom \div 2]
             ELSE [status |-> "out_of_tol", p |-> 0])
       ELSE (IF IsNum(ae) /\ ae.v < 10 THEN [status |-> "full (abs)", p |-> pts_per_atom]
             ELSE [status |-> "fail", p |-> 0])

\* a metric is valid when both dicts hold a list for it, of the same length
ValidMetric(ground_truth, agent, name) ==
    /\ name \in DOMAIN ground_truth
    /\ name \in DOMAIN agent
    /\ Len(ground_truth[name]) = Len(agent[name])

\* min(metric_earned, weight) of a valid metric with at least one atom
metric_earned_fukui(gt_list, ag_list, cfg) ==
    LET n_atoms == Len(gt_list)
        pts_per_atom == cfg.weight \div n_atoms
        atoms == [i \in 1..n_atoms |-> score_atom_fukui(gt_list[i], ag_list[i], cfg, pts_per_atom)]
    IN [earned |-> Min2(SumSeq([i \in 1..n_atoms |-> atoms[i].p]), cfg.weight),
        atoms |-> [i \in 1..n_atoms |-> atoms[i].status]]

score_numerical_fukui(ground_truth, agent, rubric) ==
    LET criteria == rubric.numerical.criteria
        valid(name) == ValidMetric(ground_truth, agent, name)
        scored == {name \in DOMAIN criteria : valid(name) /\ Len(ground_truth[name]) > 0}
        reported == {name \in DOMAIN criteria : ~valid(name)} \cup scored
        earned == [name \in scored |->
                     metric_earned_fukui(ground_truth[name], agent[name], criteria[name])]
        total_pts == SumSeq([i \in 1..Len(FukuiMetrics) |->
                        IF FukuiMetrics[i] \in scored THEN earned[FukuiMetrics[i]].earned ELSE 0])
    IN [points |-> Min2(total_pts, rubric.numerical.total),
        metrics |-> [name \in reported |->
                       IF name \in scored
                       THEN [points |-> Round2(earned[name].earned),
                             max |-> criteria[name].weight,
                             atoms |-> earned[name].atoms]
                       ELSE [points |-> 0, status |-> "invalid_data"]],
        max |-> rubric.numerical.total]

score_fukui_case(booleans, gt_numeric, agent_numeric, rubric) ==
    LET b == score_booleans_fukui(booleans, rubric)
        n == score_numerical_fukui(gt_numeric, agent_numeric, rubric)
    IN [boolean_points |-> Round2(b.points),
        boolean_details |-> b,
        numerical_points |-> Round2(n.points),
        numerical_details |-> n,
        total_points |-> Round3(b.points + n.points),
        max_points |-> rubric.metadata.total_max_points]

-----------------------------------------------------------------------------
(* Properties of the ring-strain ladder *)

\* ring sizes the data sets can produce a row for
LadderRange == 1..11

StrainKeys == {"strain_delta_H_kcal_mol", "strain_delta_G_kcal_mol"}

\* the rows and the adjacent deltas the last call built
Rows == IF call = "compute_ringstrain_rows" THEN ret.rows_by_ring ELSE ret.ground_truth_rows

Delta(n, key) ==
    IF call = "compute_ringstrain_rows"
    THEN (IF n \in DOMAIN ret.raw.adjacent_reaction
          THEN (IF key = "strain_delta_H_kcal_mol"
                THEN ret.raw.adjacent_reaction[n].dH_kcal
                ELSE ret.raw.adjacent_reaction[n].dG_kcal)
          ELSE None)
    ELSE (IF key = "strain_delta_H_kcal_mol" THEN Get(ret.dH_by_n, n) ELSE Get(ret.dG_by_n, n))

Strain(n, key) == RowGet(Rows, n, key)

LadderCall == call \in {"compute_ringstrain_rows", "_score_rs"}

AnchorIsZero(rows) ==
    /\ 6 \in DOMAIN rows
    /\ rows[6].strain_delta_H_kcal_mol = Num(0)
    /\ rows[6].strain_delta_G_kcal_mol = Num(0)

\* C1, as claimed: in rows_by_ring of compute_ringstrain_rows and in the
\* ground-truth rows _score_rs hands to score_ringstrain, the entry of ring
\* size 6 is (0.0, 0.0), whatever records and energies are present.
C1_AnchorAlwaysZero == LadderCall => AnchorIsZero(Rows)

\* C1, amended: the entry of ring size 6 is (0.0, 0.0) in rows_by_ring, and in
\* the ground-truth rows of _score_rs whenever a data-set root was derived
\* from the aggregated rows (some row carries a FolderPath); without one,
\* _score_rs hands score_ringstrain an empty ground-truth map.
C1_AnchorZeroWhenLadderBuilt ==
    /\ call = "compute_ringstrain_rows" => AnchorIsZero(ret.rows_by_ring)
    /\ call = "_score_rs" =>
          IF ret.root = <<>> THEN ret.ground_truth_rows = EmptyDict
          ELSE AnchorIsZero(ret.ground_truth_rows)

\* C1 witness: _score_rs derived a root, classified no record at all, and the
\* anchor row is there with (0.0, 0.0)
C1_Witness ==
    /\ call = "_score_rs"
    /\ ret.root # <<>>
    /\ DOMAIN ret.cyclo = {} /\ DOMAIN ret.methyl = {}
    /\ AnchorIsZero(ret.ground_truth_rows)

\* the chain from the anchor to ring size m is intact
ChainIntact(m, key) ==
    IF m > 6 THEN \A k \in 7..m : ~IsNone(Delta(k, key))
    ELSE \A k \in (m + 1)..6 : ~IsNone(Delta(k, key))

\* C2: an undefined AdjacentDelta(n) makes every strain value further from
\* the anchor on its side None (n > 6: all m >= n; n <= 6: all m < n), a gap
\* on one side leaves the other side defined whenever its own chain is
\* intact, and a None is never replaced by a number.
C2_UndefinedPropagates ==
    LadderCall =>
      \A key \in StrainKeys :
        /\ \A n \in LadderRange :
             IsNone(Delta(n, key)) =>
               IF n > 6 THEN \A m \in LadderRange : m >= n => IsNone(Strain(m, key))
               ELSE \A m \in LadderRange : m < n => IsNone(Strain(m, key))
        /\ \A m \in DOMAIN Rows :
             (m # 6 /\ ChainIntact(m, key)) => ~IsNone(Strain(m, key))

\* C2 witness: AdjacentDelta(7) is None and AdjacentDelta(8) is defined, so
\* ring sizes 7 and 8 are None, while 5, 4 and 3 below the anchor are defined
C2_Witness ==
    /\ call = "compute_ringstrain_rows"
    /\ IsNone(Delta(7, "strain_delta_H_kcal_mol"))
    /\ IsNum(Delta(8, "strain_delta_H_kcal_mol"))
    /\ IsNone(Strain(7, "strain_delta_H_kcal_mol"))
    /\ IsNone(Strain(8, "strain_delta_H_kcal_mol"))
    /\ \A m \in 3..5 : IsNum(Strain(m, "strain_delta_H_kcal_mol"))

\* the sum of AdjacentDelta(k) for k in lo..hi
RECURSIVE DeltaSum(_, _, _)
DeltaSum(lo, hi, key) ==
    IF lo > hi THEN Num(0) ELSE FAdd(DeltaSum(lo, hi - 1, key), Delta(hi, key))

\* C3: with every AdjacentDelta on the path defined, series[n] is the sum of
\* AdjacentDelta(7..n) for n > 6 and minus the sum of AdjacentDelta(n+1..6)
\* for n < 6, for ring sizes 3..8, for H and for G.
C3_PartialSums ==
    LadderCall =>
      \A key \in StrainKeys : \A n \in (3..8) \cap DOMAIN Rows :
        (n # 6 /\ ChainIntact(n, key)) =>
           Strain(n, key) = IF n > 6 THEN DeltaSum(7, n, key)
                            ELSE FSub(Num(0), DeltaSum(n + 1, 6, key))

\* C3 witness: a complete ladder, ring sizes 3 and 8 carry non-zero sums
C3_Witness ==
    /\ call = "compute_ringstrain_rows"
    /\ \A key \in StrainKeys : \A n \in 3..8 : IsNum(Strain(n, key))
    /\ \A key \in StrainKeys : Strain(3, key).v # 0 /\ Strain(8, key).v # 0
    /\ Strain(3, "strain_delta_H_kcal_mol") # Strain(4, "strain_delta_H_kcal_mol")

\* the structure maps and the conversion constant of the last call
CycloMap == IF call = "compute_ringstrain_rows" THEN ret.raw.cyclo ELSE ret.cyclo

MethylMap == IF call = "compute_ringstrain_rows" THEN ret.raw.methyl ELSE ret.methyl

UnitConstant ==
    IF call = "compute_ringstrain_rows" THEN args.unit_transfer_constant ELSE HARTREE_TO_KCAL

EnergyKey(key) == IF key = "strain_delta_H_kcal_mol" THEN "H_au" ELSE "G_au"

\* C4: AdjacentDelta(n) of an energy X is defined exactly when cyclo(n) and
\* methyl(n-1) both exist and both carry X, and is then
\* (X of methyl(n-1) - X of cyclo(n)) * constant; otherwise it is None.
\* H = -1.000 for cyclo(6), H = -1.050 for methyl(5), constant 627.5 give
\* AdjacentDelta_H(6) = -31.375.
C4_AdjacentDelta ==
    LadderCall =>
      /\ \A key \in StrainKeys : \A n \in LadderRange :
           LET X == EnergyKey(key)
               both == /\ n \in DOMAIN CycloMap
                       /\ (n - 1) \in DOMAIN MethylMap
                       /\ ~IsNone(CycloMap[n][X])
                       /\ ~IsNone(MethylMap[n - 1][X])
           IN IF both
              THEN Delta(n, key) =
                     FMul(FSub(MethylMap[n - 1][X], CycloMap[n][X]), Num(UnitConstant))
              ELSE IsNone(Delta(n, key))
      /\ ( /\ UnitConstant = 6275
           /\ 6 \in DOMAIN CycloMap /\ 5 \in DOMAIN MethylMap
           /\ CycloMap[6].H_au = Num(-1000) /\ MethylMap[5].H_au = Num(-1050) )
         => Delta(6, "strain_delta_H_kcal_mol") = Num(-313750)

\* C4 witness: the scenario of the specification, and next to it a delta that
\* is None because methyl(6) carries no H
C4_Witness ==
    /\ call = "compute_ringstrain_rows"
    /\ args.unit_transfer_constant = 6275
    /\ 6 \in DOMAIN CycloMap /\ 5 \in DOMAIN MethylMap
    /\ CycloMap[6].H_au = Num(-1000) /\ MethylMap[5].H_au = Num(-1050)
    /\ Delta(6, "strain_delta_H_kcal_mol") = Num(-313750)
    /\ 7 \in DOMAIN CycloMap /\ 6 \in DOMAIN MethylMap
    /\ IsNone(MethylMap[6].H_au)
    /\ IsNone(Delta(7, "strain_delta_H_kcal_mol"))
    /\ IsNum(Delta(7, "strain_delta_G_kcal_mol"))

-----------------------------------------------------------------------------
(* Verify/compare.py *)

\* A raw value of a payload is a tagged record: None, a number (in 10^-2), a
\* string or a bool; d.get(name) of an absent key is None.
RawNone == [t |-> "none", n |-> 0, s |-> "", b |-> FALSE]

RawNum(n) == [t |-> "num", n |-> n, s |-> "", b |-> FALSE]

RawStr(s) == [t |-> "str", n |-> 0, s |-> s, b |-> FALSE]

RawBool(b) == [t |-> "bool", n |-> 0, s |-> "", b |-> b]

PayloadGet(d, name) == IF name \in DOMAIN d THEN d[name] ELSE RawNone

\* s.strip() and s.strip().lower() of the strings the payloads hold
Strip(s) == CASE s = " 1.0 " -> "1.0" [] s = " abc" -> "abc" [] OTHER -> s

StripLower(s) == CASE s = "NO" -> "no" [] OTHER -> Strip(s)

\* float(s) of a stripped string; RawNone where float raises
ParseFloat(s) ==
    CASE s = "1.0" -> RawNum(100) [] s = "1.1" -> RawNum(110) [] s = "1" -> RawNum(100)
      [] OTHER -> RawNone

_to_number(x) ==
    CASE x.t = "none" -> RawNone
      [] x.t = "num" -> x
      [] x.t = "bool" -> RawNum(IF x.b THEN 100 ELSE 0)
      [] OTHER -> IF StripLower(x.s) \in {"", "do not exist", "none", "nan", "null"}
                  THEN RawNone
                  ELSE ParseFloat(StripLower(x.s))

\* str(x) of a number or a bool of the payloads
StrOf(x) ==
    CASE x.t = "str" -> x.s
      [] x.t = "bool" -> (IF x.b THEN "True" ELSE "False")
      [] OTHER -> (CASE x.n = 100 -> "1.0" [] x.n = 110 -> "1.1" [] x.n = 106 -> "1.06"
                     [] OTHER -> "0.0")

_coerce(kind, x) ==
    IF kind = "number" THEN _to_number(x)
    ELSE IF kind = "bool"
    THEN (IF x.t = "bool" THEN x
          ELSE IF x.t = "str" /\ StripLower(x.s) \in {"true", "yes", "1"} THEN RawBool(TRUE)
          ELSE IF x.t = "str" /\ StripLower(x.s) \in {"false", "no", "0"} THEN RawBool(FALSE)
          ELSE RawNone)
    ELSE IF x.t = "none" THEN RawNone ELSE RawStr(Strip(StrOf(x)))

\* a tolerance is None ("exact"), or atol and rtol (in 10^-2); a single
\* number is atol with rtol 0
TolExact == [mode |-> "exact", atol |-> 0, rtol |-> 0]

Tol(atol, rtol) == [mode |-> "atol/rtol", atol |-> atol, rtol |-> rtol]

_compare_number(gt, pred, tol) ==
    IF gt.t = "none" \/ pred.t = "none" THEN FALSE
    ELSE IF tol.mode = "exact" THEN gt.n = pred.n
    ELSE LET diff == IF gt.n >= pred.n THEN gt.n - pred.n ELSE pred.n - gt.n
             absgt == IF gt.n >= 0 THEN gt.n ELSE -gt.n
         IN diff * 100 <= tol.atol * 100 + tol.rtol * absgt

_compare_string(gt, pred) ==
    IF gt.t = "none" \/ pred.t = "none" THEN FALSE ELSE Strip(gt.s) = Strip(pred.s)

_compare_bool(gt, pred) ==
    IF gt.t = "none" \/ pred.t = "none" THEN FALSE ELSE gt.b = pred.b

FieldRule(name, kind, tolerance, required) ==
    [name |-> name, kind |-> kind, tolerance |-> tolerance, required |-> required]

\* round(n / d, 0) for integers n and d # 0, ties to even
RoundQuotient(n, d) ==
    LET nn == IF d < 0 THEN -n ELSE n
        dd == IF d < 0 THEN -d ELSE d
        q == nn \div dd
        r == nn - q * dd
    IN IF 2 * r < dd THEN q
       ELSE IF 2 * r > dd THEN q + 1
       ELSE IF q % 2 = 0 THEN q ELSE q + 1

FieldScored_Always(rule, gt_val) == TRUE

\* the field is scored unless it is required and its ground truth is missing
FieldScored(rule, gt_val) == ~(rule.required /\ gt_val.t = "none")

\* compare_payloads; weights in units, the score in 10^-3
compare_payloads(ground_truth, agent, rules, score_weights) ==
    LET gt_val(i) == _coerce(rules[i].kind, PayloadGet(ground_truth, rules[i].name))
        ag_val(i) == _coerce(rules[i].kind, PayloadGet(agent, rules[i].name))
        scored(i) == FieldScored(rules[i], gt_val(i))
        ok(i) ==
            IF ~scored(i) THEN FALSE
            ELSE IF rules[i].kind = "number"
                 THEN _compare_number(gt_val(i), ag_val(i), rules[i].tolerance)
            ELSE IF rules[i].kind = "bool" THEN _compare_bool(gt_val(i), ag_val(i))
            ELSE _compare_string(gt_val(i), ag_val(i))
        reason(i) ==
            IF ~scored(i) THEN "ground_truth_missing"
            ELSE IF gt_val(i).t = "none" \/ ag_val(i).t = "none" THEN "missing"
            ELSE "compared"
        w(i) == IF rules[i].name \in DOMAIN score_weights
                THEN score_weights[rules[i].name] ELSE 1
        total_w == SumSeq([i \in 1..Len(rules) |-> IF scored(i) THEN w(i) ELSE 0])
        gained_w == SumSeq([i \in 1..Len(rules) |-> IF ok(i) THEN w(i) ELSE 0])
        idx == {i \in 1..Len(rules) : ~scored(i)}
    IN [per_field |-> [n \in {rules[i].name : i \in 1..Len(rules)} |->
                          LET i == SetMax({j \in 1..Len(rules) : rules[j].name = n})
                          IN [ok |-> ok(i), reason |-> reason(i)]],
        score |-> IF total_w = 0 THEN 0 ELSE RoundQuotient(100000 * gained_w, total_w),
        missing_gt |-> [k \in 1..Cardinality(idx) |->
                          rules[CHOOSE i \in idx :
                                  Cardinality({j \in idx : j < i}) = k - 1].name]]

-----------------------------------------------------------------------------
(* The report finders of Registry/jobs/RingStrain.py and Registry/jobs.py.  A
   Markdown file is a record [name, dir, size] with dir "root" or "reports". *)

\* the position of a file name in sorted() order
NameRank(name) ==
    CASE name = "Photophysical_Properties_Final_Report.md" -> 1
      [] name = "RingStrain_Report.md" -> 2
      [] name = "TDDFT_Report.md" -> 3
      [] name = "notes.md" -> 4
      [] name = "ring_strain.md" -> 5
      [] OTHER -> 6

\* sorted(dir.glob("*.md")) of the files of one directory
RECURSIVE SortedMd(_)
SortedMd(S) ==
    IF S = {} THEN <<>>
    ELSE LET first == CHOOSE f \in S : \A g \in S : NameRank(f.name) <= NameRank(g.name)
         IN <<first>> \o SortedMd(S \ {first})

\* the orders in which a for loop may run over a set of strings: the order is
\* that of the strings' hashes, which Python salts anew in every process
IterationOrders(S) ==
    {p \in [1..Cardinality(S) -> S] : \A x \in S : \E i \in 1..Cardinality(S) : p[i] = x}

preferred_rs ==
    {"RingStrain_Report.md", "ring_strain.md", "ringstrain.md",
     "Photophysical_Properties_Final_Report.md"}

preferred_tddft ==
    {"Photophysical_Properties_Final_Report.md", "TDDFT_Report.md", "tddft_report.md",
     "S1_T1_summary.md"}

\* the body shared by _find_report_rs and _find_report_tddft: files are the
\* Markdown files under the root, order is the order in which the loop runs
\* over the preferred names; <<>> is None
FindReport(files, order) ==
    LET candidates == SortedMd({f \in files : f.dir = "root"})
                      \o SortedMd({f \in files : f.dir = "reports"})
        by_name(n) == candidates[SetMax({i \in 1..Len(candidates) : candidates[i].name = n})]
        names == {candidates[i].name : i \in 1..Len(candidates)}
        hits == {i \in 1..Len(order) : order[i] \in names}
        largest == CHOOSE i \in 1..Len(candidates) :
                      /\ \A j \in 1..Len(candidates) : candidates[j].size <= candidates[i].size
                      /\ \A j \in 1..(i - 1) : candidates[j].size < candidates[i].size
    IN IF candidates = <<>> THEN <<>>
       ELSE IF Len(candidates) = 1 THEN <<candidates[1]>>
       ELSE IF hits # {} THEN <<by_name(order[SetMin(hits)])>>
       ELSE <<candidates[largest]>>

_find_report_rs(files, order) == FindReport(files, order)

_find_report_tddft(files, order) == FindReport(files, order)

-----------------------------------------------------------------------------
(* Checks/ORCA and the booleans of the ring-strain job.  An output text is
   the sequence of its lines; a line is "freq_banner" (VIBRATIONAL
   FREQUENCIES), "freq" (the value v followed by cm**-1), "scf" (SCF
   converged), "hurray" (the HURRAY banner with OPTIMIZATION HAS CONVERGED)
   or "other".  An input text is the set of the items the input checks find
   in it. *)

Line(k, v) == [k |-> k, v |-> v]

\* the values RE_FREQ_VAL finds in a run of lines
FreqValues(lines) ==
    LET q == SelectSeq(lines, LAMBDA l : l.k = "freq")
    IN [i \in 1..Len(q) |-> q[i].v]

\* fs._extract_freqs: the values within 400 lines from the first banner,
\* else the values of the whole text
_extract_freqs(txt) ==
    LET banners == {i \in 1..Len(txt) : txt[i].k = "freq_banner"}
        candidates ==
          IF banners = {} THEN <<>>
          ELSE LET block_start == SetMin(banners)
               IN FreqValues(SubSeq(txt, block_start, Min2(Len(txt), block_start + 399)))
    IN IF candidates # <<>> THEN candidates ELSE FreqValues(txt)

\* the names the module Checks/ORCA/output_opt.py binds: what it imports
\* and what it defines
output_opt_names ==
    {"annotations", "re", "geo_opt_converged", "imaginary_freq_not_exist", "check_output_opt"}

geo_opt_converged(text) == \E i \in 1..Len(text) : text[i].k = "hurray"

\* output_opt.imaginary_freq_not_exist: evaluating fs._extract_freqs raises
\* NameError when fs is not a name of the module, and the except clause
\* makes that "no frequencies"
imaginary_freq_not_exist(txt) ==
    LET freqs == IF "fs" \in output_opt_names THEN _extract_freqs(txt) ELSE <<>>
    IN IF freqs = <<>> THEN TRUE
       ELSE \A i \in 1..Len(freqs) : freqs[i] >= 0

\* output_common.scf_converged
scf_converged(text) == \E i \in 1..Len(text) : text[i].k = "scf"

\* input_checks.method_exist, basis_exist, tasks_exist, charge_mult_exist,
\* xyz_exist
InputCheck(item, text) == item \in text

YesNo(b) == IF b THEN "yes" ELSE "no"

\* Registry/jobs/RingStrain._compute_booleans_rs
_compute_booleans_rs(itexts, otexts, folder_name) ==
    LET all_in(item) == itexts # <<>> /\ \A i \in 1..Len(itexts) : InputCheck(item, itexts[i])
        scf_any == \E i \in 1..Len(otexts) : scf_converged(otexts[i])
        geo_opt_any == \E i \in 1..Len(otexts) : geo_opt_converged(otexts[i])
        imag_freq_exist_any == \E i \in 1..Len(otexts) : ~imaginary_freq_not_exist(otexts[i])
    IN [c \in {"Folder", "Method exist?", "Basis set exist?", "Tasks exist?",
               "Charge & mult exist?", "XYZ file exist?", "SCF converged?",
               "Geo opt converged?", "Imag freq exist?"} |->
          CASE c = "Folder" -> folder_name
            [] c = "Method exist?" -> YesNo(all_in("method"))
            [] c = "Basis set exist?" -> YesNo(all_in("basis"))
            [] c = "Tasks exist?" -> YesNo(all_in("tasks"))
            [] c = "Charge & mult exist?" -> YesNo(all_in("charge_mult"))
            [] c = "XYZ file exist?" -> YesNo(all_in("xyzfile"))
            [] c = "SCF converged?" -> YesNo(scf_any)
            [] c = "Geo opt converged?" -> YesNo(geo_opt_any)
            [] OTHER -> YesNo(imag_freq_exist_any)]

-----------------------------------------------------------------------------
(* The scorer calls: the tables, rows and values they are given *)

MaxRows == 12

MaxAtoms == 2

SeqSet(q) == {q[i] : i \in 1..Len(q)}

RowPatterns == {"clean", "tokens", "dirty", "blank", "mixed"}

\* a row over the columns cols; the columns in no_cols award on "no".
\* clean: every check passes; tokens: the same with other yes/no tokens;
\* dirty: every check fails; blank: nothing filled in; mixed: two checks
\* pass, one fails, the others are not filled in
PatternRow(cols, no_cols, pattern) ==
    [c \in cols |->
       IF pattern = "clean" THEN (IF c \in no_cols THEN "no" ELSE "yes")
       ELSE IF pattern = "tokens" THEN (IF c \in no_cols THEN "false" ELSE "true")
       ELSE IF pattern = "dirty" THEN (IF c \in no_cols THEN "yes" ELSE "no")
       ELSE IF pattern = "mixed"
       THEN (IF c \in {"Method exist?", "SCF converged?"} THEN "yes"
             ELSE IF c = "XYZ file exist?" THEN "no" ELSE "")
       ELSE ""]

\* tables of up to MaxRows rows: rows of one pattern, one row possibly of another
PatternTables(cols, no_cols) ==
    UNION { { [i \in 1..k |-> PatternRow(cols, no_cols, IF i = j THEN q ELSE p)] :
                p \in RowPatterns, q \in RowPatterns, j \in {0, 1, k} } :
            k \in 0..MaxRows }

QcColumns == SeqSet(RUBRIC_RINGSTRAIN.boolean.sections.input_qc.columns)

QcTables == PatternTables(QcColumns, {"Imag freq exist?"})

TddftColumns ==
    SeqSet(RUBRIC_TDDFT.boolean.input.columns)
    \cup SeqSet(RUBRIC_TDDFT.boolean.common_output.columns)
    \cup SeqSet(RUBRIC_TDDFT.boolean.opt_output.columns_yes)
    \cup SeqSet(RUBRIC_TDDFT.boolean.opt_output.columns_no)
    \cup SeqSet(RUBRIC_TDDFT.boolean.tddft_output.columns)

TddftTables == PatternTables(TddftColumns, {"Imag freq exist?"})

FukuiColumns ==
    SeqSet(RUBRIC_FUKUI.boolean.sections.input_files.columns)
    \cup SeqSet(RUBRIC_FUKUI.boolean.sections.opt_output.columns)
    \cup SeqSet(RUBRIC_FUKUI.boolean.sections.sp_populations.columns)

\* the Fukui row: a pattern row, one without the optimisation columns, or {}
FukuiRows ==
    {PatternRow(FukuiColumns, {}, p) : p \in RowPatterns}
    \cup {PatternRow(FukuiColumns \ SeqSet(RUBRIC_FUKUI.boolean.sections.opt_output.columns),
                     {}, "clean"),
          PatternRow({}, {}, "clean")}

\* the ground-truth rows of a complete ladder
FullGtRows == AgentNumeric("exact").rows

\* deviations of one prediction: inside, on and just past each tolerance
AbsOffsets == {0, 1999, 2000, 2001, 4999, 5000, 5001, -2000, -2001, -5000, -5001}

\* rows with the entry of ring size n changed: the row dropped, the value of
\* key None, or the value shifted by an offset
RowsWith(rows, n, key, change) ==
    IF change.k = "absent_row" THEN [m \in DOMAIN rows \ {n} |-> rows[m]]
    ELSE [m \in DOMAIN rows |->
            IF m # n THEN rows[m]
            ELSE [rows[m] EXCEPT ![key] =
                    IF change.k = "none" THEN None ELSE Num(rows[m][key].v + change.v)]]

RowChanges ==
    {[k |-> "absent_row", v |-> 0], [k |-> "none", v |-> 0]}
    \cup {[k |-> "shift", v |-> e] : e \in AbsOffsets}

GtChanges == {[k |-> "absent_row", v |-> 0], [k |-> "none", v |-> 0], [k |-> "shift", v |-> 0]}

\* what the report says about the pKa: see _coerce_float
PkaReported ==
    {[k |-> "none", v |-> 0], [k |-> "text_null", v |-> 0], [k |-> "text_other", v |-> 0],
     [k |-> "text_num", v |-> 150]}
    \cup {[k |-> "num", v |-> x] : x \in {119, 120, 139, 140, 160, 161, 180, 181}}

MdExtractions ==
    {[has_linear_regression_model |-> l, pKa_of_chlorofluoroacetic_acid |-> x] :
        l \in {"yes", "no", ""}, x \in PkaReported}

\* the flags PKaJob.score_all collects, one per folder
DeltaGItems ==
    {[i \in 1..k |-> "yes"] : k \in {0, 1, 8, 9}} \cup {<<"no">>, <<"yes", "no", "">>}

\* (ground truth, prediction) of one relative-error metric
RelPairs ==
    {<<None, Num(1000)>>, <<Num(0), Num(1000)>>, <<Num(0), Num(0)>>, <<Num(1000), None>>}
    \cup {<<Num(1000), Num(x)>> : x \in {1000, 1100, 1101, 1200, 1201, 900, 800, 799}}

TddftNumeric(pS1, pGap, pOsc) ==
    [gt |-> [S1_energy_eV |-> pS1[1], S1_T1_gap_eV |-> pGap[1],
             S1_oscillator_strength |-> pOsc[1]],
     agent |-> [S1_energy_eV |-> pS1[2], S1_T1_gap_eV |-> pGap[2],
                S1_oscillator_strength |-> pOsc[2]]]

\* lists of per-atom Fukui indices, and the offsets of a reported index
FukuiGtLists == UNION {[1..n -> {Num(0), Num(1000)}] : n \in 0..MaxAtoms}

FukuiOffsets == {0, 9, 10, 100, 101, 200, 201}

Shifted(gl, offs) == [i \in 1..Len(gl) |-> Num(gl[i].v + offs[i])]

\* every metric carries the same lists, except that `broken` is missing from
\* the agent's dict ("" : none is)
FukuiNumeric(gl, al, broken) ==
    [gt |-> [m \in SeqSet(FukuiMetrics) |-> gl],
     agent |-> [m \in SeqSet(FukuiMetrics) \ {broken} |-> al]]

-----------------------------------------------------------------------------
(* The scorer calls: one call from the start state *)

\* output texts of up to MaxLines lines
MaxLines == 3

Lines ==
    {Line("freq_banner", 0), Line("freq", -50), Line("freq", 0), Line("freq", 100),
     Line("scf", 0), Line("other", 0)}

OutTexts == UNION {[1..k -> Lines] : k \in 0..MaxLines}

\* the output texts of a folder: a converged optimisation with real
\* frequencies, one with an imaginary mode, one without frequencies, a log
FolderOutTexts ==
    {<<Line("scf", 0), Line("hurray", 0), Line("freq_banner", 0), Line("freq", 100)>>,
     <<Line("scf", 0), Line("freq_banner", 0), Line("freq", -50), Line("freq", 100)>>,
     <<Line("scf", 0), Line("hurray", 0)>>,
     <<Line("other", 0)>>}

FolderInTexts ==
    {{"method", "basis", "tasks", "charge_mult", "xyzfile"}, {"method", "basis"}}

\* the rubric of a job as run() receives it: job["rubric"] (for a
\* BenchmarkJob, self.load_rubric()), the module-level dictionary handed on
\* as it is
load_rubric(rubric) == [status |-> "loaded", rubric |-> rubric]

\* RUBRIC_RINGSTRAIN with another numerical configuration
WithNumericalConfig(per_item_points, abs_tol_full, abs_tol_half) ==
    [RUBRIC_RINGSTRAIN EXCEPT !.numerical.config.per_item_points = per_item_points,
                              !.numerical.config.abs_tol_full = abs_tol_full,
                              !.numerical.config.abs_tol_half = abs_tol_half]

\* rubrics a job can carry: the shipped one, and the shipped one with a
\* negative item weight, with the two tolerances exchanged, or both
RubricVariants ==
    {WithNumericalConfig(p, t[1], t[2]) :
        p \in {Pt(400), -Pt(400)}, t \in {<<2000, 5000>>, <<5000, 2000>>}}

\* fields per comparison
MaxFields == 3

\* one field of a comparison: its rule, the raw ground truth and agent values
\* (RawNone: the key is absent or holds None) and its weight (<<>>: no entry
\* in score_weights)
FieldCase(kind, tolerance, required, gt, ag, weight) ==
    [kind |-> kind, tolerance |-> tolerance, required |-> required,
     gt |-> gt, ag |-> ag, has_weight |-> weight # <<>>,
     weight |-> IF weight = <<>> THEN 1 ELSE weight[1]]

FieldCases ==
    {FieldCase("number", TolExact, TRUE, RawNum(100), RawNum(100), <<>>),
     FieldCase("number", Tol(5, 0), TRUE, RawNum(100), RawNum(106), <<2>>),
     FieldCase("number", Tol(5, 5), TRUE, RawNum(100), RawNum(110), <<3>>),
     FieldCase("number", TolExact, TRUE, RawStr("none"), RawNum(100), <<2>>),
     FieldCase("number", TolExact, FALSE, RawNone, RawNum(100), <<>>),
     FieldCase("number", Tol(5, 0), TRUE, RawStr(" 1.0 "), RawNone, <<3>>),
     FieldCase("string", TolExact, TRUE, RawStr(" abc"), RawStr("abc"), <<>>),
     FieldCase("bool", TolExact, TRUE, RawBool(TRUE), RawStr("yes"), <<2>>),
     FieldCase("number", TolExact, TRUE, RawNum(100), RawStr("1"), <<0>>),
     FieldCase("number", TolExact, TRUE, RawNum(100), RawNum(100), <<-1>>)}

\* the fields of a comparison, named "1", "2", ...
Comparisons == UNION {[1..k -> FieldCases] : k \in 0..MaxFields}

PayloadOf(cmp, side) ==
    LET present == {i \in 1..Len(cmp) : cmp[i][side].t # "none"}
    IN [n \in {ToString(i) : i \in present} |->
          cmp[CHOOSE i \in present : ToString(i) = n][side]]

WeightsOf(cmp) ==
    LET present == {i \in 1..Len(cmp) : cmp[i].has_weight}
    IN [n \in {ToString(i) : i \in present} |->
          cmp[CHOOSE i \in present : ToString(i) = n].weight]

RulesOf(cmp) ==
    [i \in 1..Len(cmp) |-> FieldRule(ToString(i), cmp[i].kind, cmp[i].tolerance, cmp[i].required)]

\* Markdown files under a root
MaxReports == 2

MdFiles ==
    {[name |-> n, dir |-> d, size |-> NameRank(n) + (IF d = "root" THEN 0 ELSE 3)] :
        n \in {"RingStrain_Report.md", "ring_strain.md", "TDDFT_Report.md",
               "Photophysical_Properties_Final_Report.md", "notes.md"},
        d \in {"root", "reports"}}

MdFileSets == {S \in SUBSET MdFiles : Cardinality(S) <= MaxReports}

InitScore ==
    /\ call = "start"
    /\ args = <<>>
    /\ ret = <<>>

\* score_numerical_ringstrain with one item of a complete ladder changed
ScoreNumericalRingstrain ==
    /\ call = "start"
    /\ \E n \in 3..8, key \in StrainKeys, g \in GtChanges, c \in RowChanges :
         LET ground_truth_rows == RowsWith(FullGtRows, n, key, g)
             agent_rows == RowsWith(FullGtRows, n, key, c)
         IN /\ call' = "score_numerical_ringstrain"
            /\ args' = [ground_truth_rows |-> ground_truth_rows, agent_rows |-> agent_rows,
                        ring_size |-> n, metric |-> key]
            /\ ret' = score_numerical_ringstrain(ground_truth_rows, agent_rows,
                                                 RUBRIC_RINGSTRAIN)

ScoreRingstrain ==
    /\ call = "start"
    /\ \E booleans \in QcTables, profile \in AgentProfiles, with_gt \in BOOLEAN :
         LET ground_truth_rows == IF with_gt THEN FullGtRows ELSE EmptyDict
             agent == AgentNumeric(profile)
         IN /\ call' = "score_ringstrain"
            /\ args' = [booleans |-> booleans, ground_truth_rows |-> ground_truth_rows,
                        agent_rows |-> agent.rows,
                        reference_is_cyclohexane |-> agent.reference_is_cyclohexane]
            /\ ret' = score_ringstrain(booleans, ground_truth_rows, agent.rows,
                                       agent.reference_is_cyclohexane, RUBRIC_RINGSTRAIN)

ScoreNumericalPka ==
    /\ call = "start"
    /\ \E md_extraction \in MdExtractions :
         /\ call' = "score_numerical_pka"
         /\ args' = [md_extraction |-> md_extraction]
         /\ ret' = score_numerical_pka(md_extraction)

ScorePkaCase ==
    /\ call = "start"
    /\ \E section1_rows \in QcTables, section2_deltag_items \in DeltaGItems,
          x \in {[k |-> "none", v |-> 0], [k |-> "num", v |-> 150], [k |-> "num", v |-> 180]} :
         LET md_extraction == [has_linear_regression_model |-> IF x.v = 180 THEN "no" ELSE "yes",
                               pKa_of_chlorofluoroacetic_acid |-> x]
         IN /\ call' = "score_pka_case"
            /\ args' = [section1_rows |-> section1_rows,
                        section2_deltag_items |-> section2_deltag_items,
                        md_extraction |-> md_extraction]
            /\ ret' = score_pka_case(section1_rows, section2_deltag_items, md_extraction)

ScoreNumericalTddft ==
    /\ call = "start"
    /\ \E pS1 \in RelPairs, pGap \in RelPairs, pOsc \in RelPairs, json_proof \in BOOLEAN :
         LET numeric == TddftNumeric(pS1, pGap, pOsc)
         IN /\ call' = "score_numerical_tddft"
            /\ args' = [ground_truth |-> numeric.gt, agent |-> numeric.agent,
                        json_proof |-> json_proof]
            /\ ret' = score_numerical_tddft(numeric.gt, numeric.agent, json_proof, RUBRIC_TDDFT)

ScoreTddftCase ==
    /\ call = "start"
    /\ \E booleans \in TddftTables, json_proof \in BOOLEAN,
          x \in {<<None, Num(1000)>>, <<Num(1000), Num(1000)>>, <<Num(1000), Num(1200)>>} :
         LET numeric == TddftNumeric(x, x, x)
         IN /\ call' = "score_tddft_case"
            /\ args' = [booleans |-> booleans, gt_numeric |-> numeric.gt,
                        agent_numeric |-> numeric.agent, json_proof |-> json_proof]
            /\ ret' = score_tddft_case(booleans, numeric.gt, numeric.agent, json_proof,
                                       RUBRIC_TDDFT)

ScoreNumericalFukui ==
    /\ call = "start"
    /\ \E gl \in FukuiGtLists, broken \in SeqSet(FukuiMetrics) \cup {""} :
         \E al \in {Shifted(gl, [i \in 1..Len(gl) |-> IF i = 1 THEN e ELSE r]) :
                       e \in FukuiOffsets, r \in {0, 201}}
                   \cup {SubSeq(gl, 2, Len(gl))} :
           LET numeric == FukuiNumeric(gl, al, broken)
           IN /\ call' = "score_numerical_fukui"
              /\ args' = [ground_truth |-> numeric.gt, agent |-> numeric.agent]
              /\ ret' = score_numerical_fukui(numeric.gt, numeric.agent, RUBRIC_FUKUI)

ScoreFukuiCase ==
    /\ call = "start"
    /\ \E booleans \in FukuiRows, gl \in FukuiGtLists, e \in FukuiOffsets,
          broken \in {"", "f_plus_Loewdin"} :
         LET numeric == FukuiNumeric(gl, Shifted(gl, [i \in 1..Len(gl) |-> e]), broken)
         IN /\ call' = "score_fukui_case"
            /\ args' = [booleans |-> booleans, gt_numeric |-> numeric.gt,
                        agent_numeric |-> numeric.agent]
            /\ ret' = score_fukui_case(booleans, numeric.gt, numeric.agent, RUBRIC_FUKUI)

ImaginaryFreqNotExist ==
    /\ call = "start"
    /\ \E txt \in OutTexts :
         /\ call' = "imaginary_freq_not_exist"
         /\ args' = [txt |-> txt]
         /\ ret' = imaginary_freq_not_exist(txt)

\* the runner hands the input and output texts of one folder
ComputeBooleansRS ==
    /\ call = "start"
    /\ \E itexts \in UNION {[1..k -> FolderInTexts] : k \in 0..2},
          otexts \in UNION {[1..k -> FolderOutTexts] : k \in 0..2} :
         /\ call' = "_compute_booleans_rs"
         /\ args' = [itexts |-> itexts, otexts |-> otexts, folder_name |-> "folder"]
         /\ ret' = _compute_booleans_rs(itexts, otexts, "folder")

\* run() for the ring-strain job: the rubric is taken from the job, then the
\* numeric items of a complete ladder with one prediction changed are scored
RunWithRubric ==
    /\ call = "start"
    /\ \E rubric \in RubricVariants, n \in 3..8, key \in StrainKeys, c \in RowChanges :
         LET loaded == load_rubric(rubric)
             agent_rows == RowsWith(FullGtRows, n, key, c)
         IN /\ call' = "run"
            /\ args' = [rubric |-> rubric, ground_truth_rows |-> FullGtRows,
                        agent_rows |-> agent_rows, ring_size |-> n, metric |-> key]
            /\ ret' = IF loaded.status = "loaded"
                      THEN [status |-> "scored",
                            numerical |-> score_numerical_ringstrain(
                                              FullGtRows, agent_rows, loaded.rubric)]
                      ELSE [status |-> "rejected", numerical |-> EmptyDict]

ComparePayloads ==
    /\ call = "start"
    /\ \E cmp \in Comparisons :
         LET ground_truth == PayloadOf(cmp, "gt")
             agent == PayloadOf(cmp, "ag")
         IN /\ call' = "compare_payloads"
            /\ args' = [ground_truth |-> ground_truth, agent |-> agent,
                        rules |-> RulesOf(cmp), score_weights |-> WeightsOf(cmp)]
            /\ ret' = compare_payloads(ground_truth, agent, RulesOf(cmp), WeightsOf(cmp))

\* _find_report_rs on the files of a root, in one run of the interpreter
FindReportRS ==
    /\ call = "start"
    /\ \E files \in MdFileSets, order \in IterationOrders(preferred_rs) :
         /\ call' = "_find_report_rs"
         /\ args' = [files |-> files, order |-> order, preferred |-> preferred_rs]
         /\ ret' = _find_report_rs(files, order)

\* _find_report_tddft of Registry/jobs.py
FindReportTddft ==
    /\ call = "start"
    /\ \E files \in MdFileSets, order \in IterationOrders(preferred_tddft) :
         /\ call' = "_find_report_tddft"
         /\ args' = [files |-> files, order |-> order, preferred |-> preferred_tddft]
         /\ ret' = _find_report_tddft(files, order)

NextScore ==
    \/ ScoreNumericalRingstrain
    \/ ScoreRingstrain
    \/ ScoreNumericalPka
    \/ ScorePkaCase
    \/ ScoreNumericalTddft
    \/ ScoreTddftCase
    \/ ScoreNumericalFukui
    \/ ScoreFukuiCase
    \/ ImaginaryFreqNotExist
    \/ ComputeBooleansRS
    \/ RunWithRubric
    \/ ComparePayloads
    \/ FindReportRS
    \/ FindReportTddft

SpecScore == InitScore /\ [][NextScore]_vars

-----------------------------------------------------------------------------
(* Properties of the scorers *)

\* the item list of the last ring-strain scoring call
NumericalItemsOfCall ==
    IF call = "score_numerical_ringstrain" THEN ret.items
    ELSE IF call = "score_ringstrain" THEN ret.numerical_details.items
    ELSE <<>>

\* the values the call was given for the item of ring size n and metric key
GivenGt(n, key) ==
    IF n \in DOMAIN args.ground_truth_rows THEN args.ground_truth_rows[n][key] ELSE None

GivenPred(n, key) ==
    IF n \in DOMAIN args.agent_rows THEN args.agent_rows[n][key] ELSE None

\* C5: a ring-strain item whose ground truth or prediction is absent (None,
\* or the ring size missing from the ground-truth map or the agent map) gets
\* 0.0 points with reason 'missing'; the call returns and scores the other
\* items as usual.
C5_MissingItemScoresZero ==
    call \in {"score_numerical_ringstrain", "score_ringstrain"} =>
      LET items == NumericalItemsOfCall
      IN /\ Len(items) = 12
         /\ \A j \in 1..Len(items) :
              LET it == items[j]
                  absent == \/ IsNone(GivenGt(it.ring_size, it.metric))
                            \/ IsNone(GivenPred(it.ring_size, it.metric))
              IN IF absent
                 THEN it.points = 0 /\ it.reason = "missing" /\ IsNone(it.abs_err)
                 ELSE it.reason \in {"full", "half", "out_of_range"}

\* C5 witness: ring size 5 is missing from the ground-truth map, its H item
\* is 'missing' with 0 points, and the ten items of the other sizes are full
C5_Witness ==
    /\ call = "score_numerical_ringstrain"
    /\ 5 \notin DOMAIN args.ground_truth_rows
    /\ 5 \in DOMAIN args.agent_rows
    /\ ret.items[5].ring_size = 5 /\ ret.items[5].reason = "missing" /\ ret.items[5].points = 0
    /\ Cardinality({j \in 1..12 : ret.items[j].reason = "full"}) = 10
    /\ ret.points = 10 * Pt(400)

\* C6: with both values present and e = |pred - gt|: e <= 0.20 gives 4.0
\* points, reason 'full'; 0.20 < e <= 0.50 gives 2.0, reason 'half';
\* e > 0.50 gives 0, reason 'out_of_range'.
C6_ToleranceBands ==
    call \in {"score_numerical_ringstrain", "score_ringstrain"} =>
      \A j \in 1..Len(NumericalItemsOfCall) :
        LET it == NumericalItemsOfCall[j]
            gt == GivenGt(it.ring_size, it.metric)
            pred == GivenPred(it.ring_size, it.metric)
            e == IF pred.v >= gt.v THEN pred.v - gt.v ELSE gt.v - pred.v
        IN (IsNum(gt) /\ IsNum(pred)) =>
             /\ it.abs_err = Num(e)
             /\ e <= 2000 => (it.points = Pt(400) /\ it.reason = "full")
             /\ (2000 < e /\ e <= 5000) => (it.points = Pt(200) /\ it.reason = "half")
             /\ e > 5000 => (it.points = 0 /\ it.reason = "out_of_range")

\* C6 witness: one report with errors of exactly 0.20 (full), 0.2001 (half),
\* exactly 0.50 (half) and 0.5001 (out of range)
C6_Witness ==
    /\ call = "score_ringstrain"
    /\ \A e \in {2000, 2001, 5000, 5001} :
         \E j \in 1..Len(NumericalItemsOfCall) :
           LET it == NumericalItemsOfCall[j]
           IN /\ it.abs_err = Num(e)
              /\ it.reason = (IF e = 2000 THEN "full" ELSE IF e = 5001 THEN "out_of_range"
                              ELSE "half")

\* the (points, max) pairs of the sections the last call reports
SectionsOfCall ==
    IF call = "score_ringstrain"
    THEN {<<ret.boolean_details.points, ret.boolean_details.max>>}
    ELSE IF call = "score_pka_case"
    THEN {<<ret.boolean_details.input_qc.points, ret.boolean_details.input_qc.max>>,
          <<ret.boolean_details.delta_g.points, ret.boolean_details.delta_g.max>>}
    ELSE IF call \in {"score_tddft_case", "score_fukui_case"}
    THEN {<<ret.boolean_details.sections[k].points, ret.boolean_details.sections[k].max>> :
            k \in DOMAIN ret.boolean_details.sections}
    ELSE {}

\* C7: the points reported for a rubric section never exceed the section's
\* max_points: ring-strain input_qc, the TDDFT boolean sections, pKa input_qc
\* and delta_g, the Fukui sections.
C7_SectionWithinMax == \A s \in SectionsOfCall : s[1] <= s[2]

\* the maximum total the rubric of the last call declares
TotalMaxOfCall ==
    IF call = "score_ringstrain" THEN RUBRIC_RINGSTRAIN.metadata.total_max_points
    ELSE IF call = "score_pka_case" THEN RUBRIC_PKA.metadata.total_max_points
    ELSE IF call = "score_tddft_case" THEN RUBRIC_TDDFT.total_points
    ELSE RUBRIC_FUKUI.metadata.total_max_points

\* C8: total_points of a score report never exceeds the rubric's declared
\* maximum total (100.0): score_ringstrain, score_pka_case, score_tddft_case,
\* score_fukui_case.
C8_TotalWithinMax ==
    call \in {"score_ringstrain", "score_pka_case", "score_tddft_case", "score_fukui_case"} =>
      ret.total_points <= TotalMaxOfCall

-----------------------------------------------------------------------------
(* io/fs.py: folder iteration and selection.  A file or folder name is the
   sequence of its characters. *)

\* str.lower() on the characters the names of the model use
LowerChar(c) ==
    CASE c = "A" -> "a" [] c = "B" -> "b" [] c = "L" -> "l" [] c = "O" -> "o"
      [] OTHER -> c

Lower(s) == [i \in 1..Len(s) |-> LowerChar(s[i])]

\* the code point of a character
Ord(c) ==
    CASE c = "-" -> 45 [] c = "." -> 46 [] c = "1" -> 49
      [] c = "A" -> 65 [] c = "B" -> 66 [] c = "L" -> 76 [] c = "O" -> 79
      [] c = "a" -> 97 [] c = "b" -> 98 [] c = "c" -> 99 [] c = "g" -> 103
      [] c = "l" -> 108 [] c = "m" -> 109 [] c = "o" -> 111 [] c = "r" -> 114
      [] c = "s" -> 115 [] c = "t" -> 116 [] c = "u" -> 117
      [] OTHER -> 0

\* a < b as Python compares strings
RECURSIVE StrLess(_, _)
StrLess(a, b) ==
    IF b = <<>> THEN FALSE
    ELSE IF a = <<>> THEN TRUE
    ELSE IF Ord(Head(a)) # Ord(Head(b)) THEN Ord(Head(a)) < Ord(Head(b))
    ELSE StrLess(Tail(a), Tail(b))

\* w in s, s.startswith(w)
IsSubstring(w, s) == \E i \in 1..(Len(s) - Len(w) + 1) : SubSeq(s, i, i + Len(w) - 1) = w

StartsWith(s, w) == Len(w) <= Len(s) /\ SubSeq(s, 1, Len(w)) = w

\* Config/defaults.py
SKIP_DIRS ==
    {<<"r", "e", "s", "u", "l", "t", "s">>, <<"j", "o", "b", "i", "n", "f", "o">>,
     <<"l", "o", "g", "s">>, <<"r", "e", "p", "o", "r", "t", "s">>,
     <<"f", "i", "g", "u", "r", "e", "s">>}

SKIP_OUTFILE_PREFIXES == {<<"s", "l", "u", "r", "m">>}

PRIMARY_OUT_FILENAME == <<"o", "r", "c", "a", ".", "o", "u", "t">>

\* A folder: its name, its *.out files in the order glob yields them (each
\* with the frequencies its text spells, and whether it can be read), and xyz, what its primary *.xyz
\* gives: k = "noxyz" (no geometry file), "raise" (inchikey_from_xyz raises),
\* "nokey" (it returns None) or "key" (it returns the InChIKey text).

\* folder.glob("*.out") without the slurm logs
NonSlurmOuts(folder) ==
    SelectSeq(folder.outs,
              LAMBDA p : ~\E pre \in SKIP_OUTFILE_PREFIXES : StartsWith(Lower(p.name), pre))

\* fs._read_primary_out: "orca.out" if there, else the first one; <<>> is None
_read_primary_out(folder) ==
    LET outs == NonSlurmOuts(folder)
        prim == SelectSeq(outs, LAMBDA p : Lower(p.name) = PRIMARY_OUT_FILENAME)
    IN IF outs = <<>> THEN <<>>
       ELSE IF prim # <<>> THEN <<prim[1]>> ELSE <<outs[1]>>

\* True, False, or None ("none") when there is no primary output or it
\* spells no frequency
folder_has_real_freqs(folder) ==
    LET outp == _read_primary_out(folder)
    IN IF outp = <<>> THEN "none"
       ELSE IF outp[1].freqs = <<>> THEN "none"
       ELSE IF \A i \in 1..Len(outp[1].freqs) : outp[1].freqs[i] >= 0 THEN "true"
       ELSE "false"

_rank_ByNameOnly(p) == 0

\* find_best_out_for_qc._rank without the name: 0 all frequencies real,
\* 1 no frequencies, 2 imaginary frequencies, 3 unreadable
_rank(p) ==
    IF ~p.readable THEN 3
    ELSE IF p.freqs = <<>> THEN 1
    ELSE IF \A i \in 1..Len(p.freqs) : p.freqs[i] >= 0 THEN 0
    ELSE 2

\* _rank(p) < _rank(q) as tuples (rank, p.name.lower())
RankLess(p, q) ==
    \/ _rank(p) < _rank(q)
    \/ _rank(p) = _rank(q) /\ StrLess(Lower(p.name), Lower(q.name))

\* min(outs, key=_rank): the first file that no other file is below
MinByRank(outs) ==
    LET i == CHOOSE k \in 1..Len(outs) :
                /\ \A j \in 1..Len(outs) : ~RankLess(outs[j], outs[k])
                /\ \A j \in 1..(k - 1) : RankLess(outs[k], outs[j])
    IN outs[i]

\* fs.find_best_out_for_qc; <<>> is None
find_best_out_for_qc(folder) ==
    LET outs == NonSlurmOuts(folder)
    IN IF outs = <<>> THEN <<>>
       ELSE LET best == MinByRank(outs)
                prim == _read_primary_out(folder)
            IN IF _rank(best) # 0
               THEN (IF prim # <<>> THEN prim ELSE <<best>>)
               ELSE <<best>>

has_non_slurm_out(folder) == NonSlurmOuts(folder) # <<>>

\* sorted(root.iterdir())
RECURSIVE SortedByName(_)
SortedByName(S) ==
    IF S = {} THEN <<>>
    ELSE LET first == CHOOSE f \in S : \A g \in S \ {f} : StrLess(f.name, g.name)
         IN <<first>> \o SortedByName(S \ {first})

\* the subdirectories of root in name order, without those whose lower-cased
\* name contains a SKIP_DIRS word
iter_child_folders(root) ==
    SelectSeq(SortedByName(root),
              LAMBDA p : ~\E skip \in SKIP_DIRS : IsSubstring(Lower(skip), Lower(p.name)))

\* a structure key is a string: the InChIKey, or "__name__:" and a name
InchiKey(text) == [prefix |-> "", text |-> text]

\* f"__name__:{folder.name.lower()}"
NameKey(folder) == [prefix |-> "__name__:", text |-> Lower(folder.name)]

KeyIsEmpty(key) == key.prefix = "" /\ key.text = <<>>

StructureKey_DropUnkeyed(folder) ==
    IF folder.xyz.k # "key" THEN InchiKey(<<>>) ELSE InchiKey(folder.xyz.text)

\* the key select_unique_by_inchikey gives a folder
StructureKey(folder) ==
    IF folder.xyz.k # "key" THEN NameKey(folder) ELSE InchiKey(folder.xyz.text)

\* groups.setdefault(key, []).append(folder), in scan order: a sequence of
\* [key, flist] in the order the keys were first seen
RECURSIVE GroupFolders(_, _)
GroupFolders(groups, folders) ==
    IF folders = <<>> THEN groups
    ELSE LET folder == Head(folders)
             key == StructureKey(folder)
             at == {i \in 1..Len(groups) : groups[i].key = key}
             next == IF at = {}
                     THEN Append(groups, [key |-> key, flist |-> <<folder>>])
                     ELSE [i \in 1..Len(groups) |->
                             IF i \in at
                             THEN [groups[i] EXCEPT !.flist = Append(@, folder)]
                             ELSE groups[i]]
         IN GroupFolders(next, Tail(folders))

ChooseRepresentative_First(flist, prefer_real_freqs) == flist[1]

\* the representative of one group
ChooseRepresentative(flist, prefer_real_freqs) ==
    LET with_out == SelectSeq(flist, has_non_slurm_out)
        pool == IF with_out # <<>> THEN with_out ELSE flist
        real == SelectSeq(pool, LAMBDA f : folder_has_real_freqs(f) = "true")
    IN IF prefer_real_freqs /\ real # <<>> THEN real[1] ELSE pool[1]

select_unique_by_inchikey_AllFolders(root_dir, prefer_real_freqs) ==
    LET scanned == iter_child_folders(root_dir)
        groups == GroupFolders(<<>>, scanned)
    IN [scanned |-> scanned, groups |-> groups, reps |-> scanned]

select_unique_by_inchikey(root_dir, prefer_real_freqs) ==
    LET scanned == iter_child_folders(root_dir)
        groups == GroupFolders(<<>>, scanned)
    IN [scanned |-> scanned,
        groups |-> groups,
        reps |-> [i \in 1..Len(groups) |->
                    ChooseRepresentative(groups[i].flist, prefer_real_freqs)]]

-----------------------------------------------------------------------------
(* The data-set directories the selection scans *)

MaxFolders == 3

FolderNames ==
    {<<"a">>, <<"A">>, <<"b">>, <<"L", "o", "g", "s">>, <<"b", "l", "o", "g", "s">>}

OutFile(name, freqs) == [name |-> name, freqs |-> freqs, readable |-> TRUE]

\* an output file whose read_text raises
Unreadable(name) == [name |-> name, freqs |-> <<>>, readable |-> FALSE]

orca_out == <<"o", "r", "c", "a", ".", "o", "u", "t">>

a_out == <<"a", ".", "o", "u", "t">>

b_out == <<"b", ".", "o", "u", "t">>

slurm_out == <<"s", "l", "u", "r", "m", "-", "1", ".", "o", "u", "t">>

NoXyz == [k |-> "noxyz", text |-> <<>>]

XyzRaises == [k |-> "raise", text |-> <<>>]

XyzNoKey == [k |-> "nokey", text |-> <<>>]

XyzKey(text) == [k |-> "key", text |-> text]

FolderContents ==
    {[xyz |-> NoXyz, outs |-> <<>>],
     [xyz |-> XyzKey(<<"K", "1">>), outs |-> <<OutFile(orca_out, <<100, 120>>)>>],
     [xyz |-> XyzKey(<<"K", "1">>), outs |-> <<OutFile(orca_out, <<-50, 120>>)>>],
     [xyz |-> XyzKey(<<"K", "1">>), outs |-> <<OutFile(slurm_out, <<100>>)>>],
     [xyz |-> XyzKey(<<"K", "2">>), outs |-> <<OutFile(a_out, <<>>)>>],
     [xyz |-> XyzRaises, outs |-> <<OutFile(orca_out, <<100, 120>>)>>],
     [xyz |-> XyzNoKey, outs |-> <<OutFile(a_out, <<-50>>), OutFile(orca_out, <<100>>)>>],
     [xyz |-> XyzKey(<<"K", "1">>), outs |-> <<OutFile(a_out, <<100>>), OutFile(b_out, <<-50>>)>>]}

\* directories of up to MaxFolders subfolders with distinct names
Directories ==
    UNION { { {[name |-> n, xyz |-> c[n].xyz, outs |-> c[n].outs] : n \in N} :
                c \in [N -> FolderContents] } :
            N \in {M \in SUBSET FolderNames : Cardinality(M) <= MaxFolders} }

\* the orders in which folder.glob("*.out") may yield the files of q
GlobOrder(q) ==
    {p \in [1..Len(q) -> SeqSet(q)] : \A e \in SeqSet(q) : \E i \in 1..Len(q) : p[i] = e}

\* the directory root as the file system may enumerate it: every folder's
\* output files in one of their orders
GlobOrders(root) ==
    { {[f EXCEPT !.outs = c[f]] : f \in root} :
        c \in {d \in [root -> UNION {GlobOrder(f.outs) : f \in root}] :
                 \A f \in root : d[f] \in GlobOrder(f.outs)} }

InitSelect ==
    /\ call = "start"
    /\ args \in {[root_dir |-> D] : D \in Directories}
    /\ ret = <<>>

IterChildFolders ==
    /\ call = "start"
    /\ call' = "iter_child_folders"
    /\ args' = args
    /\ ret' = iter_child_folders(args.root_dir)

SelectUniqueByInchikey ==
    /\ call = "start"
    /\ \E prefer_real_freqs \in BOOLEAN, tree \in GlobOrders(args.root_dir) :
         /\ call' = "select_unique_by_inchikey"
         /\ args' = [root_dir |-> tree, prefer_real_freqs |-> prefer_real_freqs]
         /\ ret' = select_unique_by_inchikey(tree, prefer_real_freqs)

NextSelect == IterChildFolders \/ SelectUniqueByInchikey

SpecSelect == InitSelect /\ [][NextSelect]_vars

-----------------------------------------------------------------------------
(* The output file chosen for the QC checks *)

\* files per folder
MaxOuts == 3

OutNames == {orca_out, a_out, b_out, slurm_out}

\* what a file holds: real frequencies, none, an imaginary one, or it cannot
\* be read
OutKinds == {"real", "nofreq", "imag", "unreadable"}

OutOfKind(name, kind) ==
    CASE kind = "real" -> OutFile(name, <<100, 120>>)
      [] kind = "nofreq" -> OutFile(name, <<>>)
      [] kind = "imag" -> OutFile(name, <<-50, 120>>)
      [] OTHER -> Unreadable(name)

\* folders of up to MaxOuts output files, listed by name
QcFolders ==
    UNION { { [name |-> <<"a">>, xyz |-> NoXyz,
               outs |-> LET S == {OutOfKind(n, c[n]) : n \in N}
                        IN SortedByName(S)] :
                c \in [N -> OutKinds] } :
            N \in {M \in SUBSET OutNames : Cardinality(M) <= MaxOuts} }

\* two folders "a" and "b" of one structure, each with up to two readable
\* output files
PairOuts ==
    UNION { { SortedByName({OutOfKind(n, c[n]) : n \in N}) :
                c \in [N -> {"real", "nofreq", "imag"}] } :
            N \in {M \in SUBSET {orca_out, a_out, b_out} : Cardinality(M) <= 2} }

QcPairs ==
    { {[name |-> <<"a">>, xyz |-> XyzKey(<<"K", "1">>), outs |-> oa],
       [name |-> <<"b">>, xyz |-> XyzKey(<<"K", "1">>), outs |-> ob]} :
        oa \in PairOuts, ob \in PairOuts }

\* a data set of one folder, or of two folders of one structure
QcDirectories == {{f} : f \in QcFolders} \cup QcPairs

InitQc ==
    /\ call = "start"
    /\ args \in {[root_dir |-> D] : D \in QcDirectories}
    /\ ret = <<>>

\* find_best_out_for_qc on a folder, glob yielding its files in some order
FindBestOutForQc ==
    /\ call = "start"
    /\ \E f \in args.root_dir :
         \E outs \in GlobOrder(f.outs) :
            LET folder == [f EXCEPT !.outs = outs]
            IN /\ call' = "find_best_out_for_qc"
               /\ args' = [folder |-> folder]
               /\ ret' = find_best_out_for_qc(folder)

\* run() on a data set of two folders: the representatives are selected, then
\* the QC output of each is picked; the second time glob may yield a folder's
\* files in another order
RunQcOfRepresentatives ==
    /\ call = "start"
    /\ args.root_dir \in QcPairs
    /\ \E tree \in GlobOrders(args.root_dir), later \in GlobOrders(args.root_dir) :
         LET sel == select_unique_by_inchikey(tree, TRUE)
             again(f) == CHOOSE g \in later : g.name = f.name
         IN /\ call' = "run_qc"
            /\ args' = [root_dir |-> tree, later |-> later]
            /\ ret' = [representatives |-> sel.reps,
                       real |-> [i \in 1..Len(sel.reps) |->
                                   folder_has_real_freqs(sel.reps[i])],
                       primary_out |-> [i \in 1..Len(sel.reps) |->
                                          find_best_out_for_qc(again(sel.reps[i]))]]

NextQc == FindBestOutForQc \/ RunQcOfRepresentatives

SpecQc == InitQc /\ [][NextQc]_vars

-----------------------------------------------------------------------------
(* Properties of the selection *)

\* the key a folder is filed under: the key of the group that lists it
GroupKeysOf(folder) ==
    {ret.groups[i].key : i \in {j \in 1..Len(ret.groups) : folder \in SeqSet(ret.groups[j].flist)}}

\* the members of the group of a key
GroupOf(key) ==
    UNION {SeqSet(ret.groups[i].flist) : i \in {j \in 1..Len(ret.groups) : ret.groups[j].key = key}}

\* C9: select_unique_by_inchikey returns exactly one folder per distinct
\* structure key: as many representatives as distinct keys among the scanned
\* folders, each a member of the group of its key, no two sharing a key.
C9_OneRepresentativePerKey ==
    call = "select_unique_by_inchikey" =>
      LET scanned == SeqSet(ret.scanned)
          keys == UNION {GroupKeysOf(f) : f \in scanned}
      IN /\ Len(ret.reps) = Cardinality(keys)
         /\ \A i \in 1..Len(ret.reps) :
              /\ ret.reps[i] \in scanned
              /\ \E key \in keys : ret.reps[i] \in GroupOf(key) /\ GroupKeysOf(ret.reps[i]) = {key}
         /\ \A i, j \in 1..Len(ret.reps) :
              i # j => GroupKeysOf(ret.reps[i]) \cap GroupKeysOf(ret.reps[j]) = {}
         /\ \A key \in keys : \E i \in 1..Len(ret.reps) : ret.reps[i] \in GroupOf(key)

\* C9 witness: three folders scanned, two of them with the same InChIKey, and
\* two representatives returned
C9_Witness ==
    /\ call = "select_unique_by_inchikey"
    /\ Len(ret.scanned) = 3
    /\ \E i, j \in 1..3 :
         /\ i # j
         /\ ret.scanned[i].xyz = XyzKey(<<"K", "1">>)
         /\ ret.scanned[j].xyz = XyzKey(<<"K", "1">>)
    /\ Len(ret.reps) = 2

FirstByName(S) == {f \in S : \A g \in S \ {f} : StrLess(f.name, g.name)}

\* C11: with prefer_real_freqs (its default, and what every caller passes) the
\* representative of a group follows a strict preference order: if a folder of
\* the group has a non-slurm .out file the representative has one; among those
\* candidates, if one has a primary output whose frequencies are all >= 0, the
\* representative is the first such folder in sorted path order; otherwise it
\* is the first candidate; a group without any usable output yields its first
\* folder.
C11_PreferenceOrder ==
    (call = "select_unique_by_inchikey" /\ args.prefer_real_freqs) =>
      \A i \in 1..Len(ret.groups) :
        LET group == SeqSet(ret.groups[i].flist)
            with_out == {f \in group : has_non_slurm_out(f)}
            candidates == IF with_out # {} THEN with_out ELSE group
            real == {f \in candidates : folder_has_real_freqs(f) = "true"}
        IN /\ ret.reps[i] \in candidates
           /\ real # {} => ret.reps[i] \in FirstByName(real)
           /\ real = {} => ret.reps[i] \in FirstByName(candidates)
           /\ with_out = {} => ret.reps[i] \in FirstByName(group)

\* C11 witness: three folders share an InChIKey; "A" holds only a slurm log,
\* "a" an output with a negative frequency, "b" an output with real
\* frequencies, and "b", the last in path order, is the representative
C11_Witness ==
    /\ call = "select_unique_by_inchikey"
    /\ args.prefer_real_freqs
    /\ Len(ret.groups) = 1
    /\ Len(ret.groups[1].flist) = 3
    /\ ~has_non_slurm_out(ret.groups[1].flist[1])
    /\ folder_has_real_freqs(ret.groups[1].flist[2]) = "false"
    /\ folder_has_real_freqs(ret.groups[1].flist[3]) = "true"
    /\ ret.reps = <<ret.groups[1].flist[3]>>

\* the paths of the representatives
RepNames(reps) == {reps[i].name : i \in 1..Len(reps)}

\* C12: the set of representatives of an unchanged folder tree does not depend
\* on the order in which the file system enumerates the folders or the output
\* files inside a folder: every enumeration order gives the same set.
C12_OrderIndependent ==
    call = "select_unique_by_inchikey" =>
      \A tree \in GlobOrders(args.root_dir) :
        RepNames(select_unique_by_inchikey(tree, args.prefer_real_freqs).reps)
          = RepNames(ret.reps)

-----------------------------------------------------------------------------
(* Properties of the boolean checks *)

\* the QC section and the per-row points of the last call
QcSectionOfCall ==
    IF call = "score_ringstrain"
    THEN [sec |-> RUBRIC_RINGSTRAIN.boolean.sections.input_qc,
          rows |-> args.booleans,
          per_row_points |-> ret.boolean_details.per_row_points]
    ELSE [sec |-> RUBRIC_PKA.boolean.sections.input_qc,
          rows |-> args.section1_rows,
          per_row_points |-> ret.boolean_details.input_qc.per_row_points]

\* the number of the columns cols[lo..hi] of row whose value is in tokens
CountIn(row, cols, lo, hi, tokens) ==
    Cardinality({i \in lo..hi : row[cols[i]] \in tokens})

\* C13: each boolean check awards its full per-check score when the observed
\* value matches the award condition and 0 otherwise: a row's points are
\* yes_score times the number of yes values among the first seven QC columns
\* plus imag_no_score when 'Imag freq exist?' is a no value; a value that is
\* neither a yes nor a no token awards nothing in either kind of check.
C13_BooleanChecks ==
    call \in {"score_ringstrain", "score_pka_case"} =>
      LET q == QcSectionOfCall
      IN /\ Len(q.per_row_points) = Len(q.rows)
         /\ \A i \in 1..Len(q.rows) :
              q.per_row_points[i]
                = q.sec.yes_score * CountIn(q.rows[i], q.sec.columns, 1, 7, YES_VALUES)
                  + q.sec.imag_no_score * CountIn(q.rows[i], q.sec.columns, 8, 8, NO_VALUES)

\* C13 witness: a ring-strain QC table with a row of two "yes", one "no" and
\* five empty cells, 'Imag freq exist?' among the empty ones, scored 1.0, and
\* a row with every check passed, scored 4.0
C13_Witness ==
    /\ call = "score_ringstrain"
    /\ \E i, j \in 1..Len(args.booleans) :
         /\ args.booleans[i]["Imag freq exist?"] = ""
         /\ args.booleans[i]["Method exist?"] = "yes"
         /\ args.booleans[i]["XYZ file exist?"] = "no"
         /\ ret.boolean_details.per_row_points[i] = Pt(100)
         /\ args.booleans[j]["Imag freq exist?"] = "no"
         /\ ret.boolean_details.per_row_points[j] = Pt(400)

\* C14: imaginary_freq_not_exist returns False whenever the output contains
\* vibrational frequencies and one is negative, True when frequencies are
\* present and all >= 0, True when none is found; so 'Imag freq exist?' of a
\* folder is "yes" whenever one of its examined outputs contains a negative
\* frequency, and the imaginary-frequency point is then withheld.
C14_ImaginaryFrequencyDetected ==
    /\ call = "imaginary_freq_not_exist" =>
         LET freqs == _extract_freqs(args.txt)
         IN ret = (freqs = <<>> \/ \A i \in 1..Len(freqs) : freqs[i] >= 0)
    /\ call = "_compute_booleans_rs" =>
         LET sec == RUBRIC_RINGSTRAIN.boolean.sections.input_qc
             negative(txt) == \E v \in SeqSet(_extract_freqs(txt)) : v < 0
         IN (\E i \in 1..Len(args.otexts) : negative(args.otexts[i])) =>
              /\ ret["Imag freq exist?"] = "yes"
              /\ score_booleans_ringstrain(<<ret>>, RUBRIC_RINGSTRAIN).per_row_points[1]
                   = sec.yes_score * CountIn(ret, sec.columns, 1, 7, YES_VALUES)

-----------------------------------------------------------------------------
(* Properties of the energy extraction *)

\* the call read the energies of one folder from its output, and the maps
\* hold that folder's record
ReadRecordUsed ==
    /\ call = "compute_ringstrain_rows"
    /\ "read" \in DOMAIN args
    /\ LET info == args.dataset[args.read]
       IN ret.raw[info.kind][info.ring_size].folder = info.folder

\* the output of the folder spells no enthalpy value
NoEnthalpyInOutput ==
    args.outp = <<>> \/ \A i \in 1..Len(args.outp[1]) : args.outp[1][i].k # "enthalpy"

\* C15: an energy that is absent from a representative's output is recorded
\* as None and propagated, never replaced by another quantity: if the output
\* contains no enthalpy value, H_total of the structure is None and every
\* AdjacentDelta_H that uses the structure is None.
C15_AbsentEnthalpyIsNone ==
    (ReadRecordUsed /\ NoEnthalpyInOutput) =>
      LET info == args.dataset[args.read]
          n == IF info.kind = "cyclo" THEN info.ring_size ELSE info.ring_size + 1
      IN /\ info.H_total_au = None
         /\ ret.raw[info.kind][info.ring_size].H_au = None
         /\ Delta(n, "strain_delta_H_kcal_mol") = None

-----------------------------------------------------------------------------
(* Properties of the relative-error scorers *)

\* the TDDFT metrics with a zero ground truth are reported missing, 0 points
ZeroGtMissing_tddft ==
    call = "score_numerical_tddft" =>
      \A name \in DOMAIN ret.metrics :
        args.ground_truth[name] = Num(0) =>
          /\ ret.metrics[name].points = 0
          /\ ret.metrics[name].reason \in {"missing", "no_json_proof"}

\* the atoms with a zero ground truth earn nothing
ZeroGtMissing_fukui ==
    call = "score_numerical_fukui" =>
      \A name \in DOMAIN ret.metrics :
        "atoms" \in DOMAIN ret.metrics[name] =>
          \A i \in 1..Len(args.ground_truth[name]) :
            args.ground_truth[name][i] = Num(0) =>
              ret.metrics[name].atoms[i] \notin {"full", "half", "full (abs)"}

\* C16: in relative-error scoring an item whose ground truth is exactly zero
\* is treated as missing and awards 0 points, whatever the prediction is, for
\* the TDDFT metrics and for the per-atom Fukui indices.
C16_ZeroGroundTruthIsMissing == ZeroGtMissing_tddft /\ ZeroGtMissing_fukui

\* |a - b|
Distance(a, b) == IF a >= b THEN a - b ELSE b - a

\* the points of two predictions are ordered against their errors
Ordered(e1, p1, e2, p2) == (e1 <= e2 => p1 >= p2) /\ (e2 <= e1 => p2 >= p1)

\* other predictions of a relative-error metric
OtherPredictions == {0, 799, 800, 900, 1000, 1100, 1101, 1200, 1201, 2500}

\* C17: for a fixed ground truth and rubric the points of a numeric item never
\* increase as the error grows: |pred1 - gt| <= |pred2 - gt| implies
\* points(pred1) >= points(pred2), for the absolute-error ring-strain scorer
\* and the relative-error TDDFT scorer.
C17_PointsNonIncreasingInError ==
    /\ call = "score_numerical_ringstrain" =>
         \A j \in 1..Len(ret.items) :
           LET it == ret.items[j]
               gt == GivenGt(it.ring_size, it.metric)
               pred == GivenPred(it.ring_size, it.metric)
           IN (IsNum(gt) /\ IsNum(pred)) =>
                \A off \in AbsOffsets :
                  Ordered(Distance(pred.v, gt.v), it.points,
                          Distance(gt.v + off, gt.v),
                          _score_one(gt, Num(gt.v + off),
                                     RUBRIC_RINGSTRAIN.numerical.config).points)
    /\ call = "score_numerical_tddft" =>
         \A name \in DOMAIN ret.metrics :
           LET gt == args.ground_truth[name]
               pred == args.agent[name]
           IN (IsNum(gt) /\ IsNum(pred)) =>
                \A x \in OtherPredictions :
                  Ordered(Distance(pred.v, gt.v), ret.metrics[name].points,
                          Distance(x, gt.v),
                          score_metric_tddft(gt, Num(x), RUBRIC_TDDFT.numerical.criteria[name],
                                             args.json_proof).points)

\* C17 witness: a ring-strain prediction off by 0.2001 earns half the points,
\* less than one off by 0.20 and more than one off by 0.5001
C17_Witness ==
    /\ call = "score_numerical_ringstrain"
    /\ LET cfg == RUBRIC_RINGSTRAIN.numerical.config
           gt == GivenGt(args.ring_size, args.metric)
           pred == GivenPred(args.ring_size, args.metric)
       IN /\ IsNum(gt) /\ IsNum(pred)
          /\ Distance(pred.v, gt.v) = 2001
          /\ \E j \in 1..Len(ret.items) :
               /\ ret.items[j].ring_size = args.ring_size
               /\ ret.items[j].metric = args.metric
               /\ ret.items[j].points = Pt(200)
          /\ _score_one(gt, Num(gt.v + 2000), cfg).points = Pt(400)
          /\ _score_one(gt, Num(gt.v + 5001), cfg).points = 0

-----------------------------------------------------------------------------
(* Independence of the two ladders *)

\* the data sets that differ from dataset only in the energy `field`
\* ("H_total_au" or "G_total_au"): absent or shifted in one record, absent in
\* all, shifted in all
EnergyVaried(dataset, field) ==
    LET changed(rec, drop) ==
          [rec EXCEPT ![field] = IF drop \/ IsNone(@) THEN None ELSE Num(@.v + 5)]
    IN {[i \in 1..Len(dataset) |-> IF j \in {0, i} THEN changed(dataset[i], drop)
                                    ELSE dataset[i]] :
          j \in 0..Len(dataset), drop \in BOOLEAN}

\* the adjacent differences and the strain series of one energy in a result
LadderOf(result, letter) ==
    [delta |-> [n \in DOMAIN result.raw.adjacent_reaction |->
                  IF letter = "H" THEN result.raw.adjacent_reaction[n].dH_kcal
                  ELSE result.raw.adjacent_reaction[n].dG_kcal],
     strain |-> [n \in DOMAIN result.rows_by_ring |->
                   IF letter = "H" THEN result.rows_by_ring[n].strain_delta_H_kcal_mol
                   ELSE result.rows_by_ring[n].strain_delta_G_kcal_mol]]

\* C18: the enthalpy and the free-energy ladder are built independently: two
\* inputs with the same records and the same H values, differing in which G
\* values are present or in their values, give identical AdjacentDelta_H
\* values and an identical H strain series; symmetrically the G series does
\* not depend on the H values.
C18_LaddersIndependent ==
    call = "compute_ringstrain_rows" =>
      /\ \A other \in EnergyVaried(args.dataset, "G_total_au") :
           LadderOf(compute_ringstrain_rows(other, args.unit_transfer_constant), "H")
             = LadderOf(ret, "H")
      /\ \A other \in EnergyVaried(args.dataset, "H_total_au") :
           LadderOf(compute_ringstrain_rows(other, args.unit_transfer_constant), "G")
             = LadderOf(ret, "G")

\* C18 witness: methylcyclopentane has H but no G; the H ladder has its
\* difference and strain at ring size 5 while the G ladder has none
C18_Witness ==
    /\ call = "compute_ringstrain_rows"
    /\ 5 \in DOMAIN ret.raw.methyl /\ 6 \in DOMAIN ret.raw.cyclo
    /\ IsNum(ret.raw.methyl[5].H_au) /\ IsNone(ret.raw.methyl[5].G_au)
    /\ IsNum(ret.raw.adjacent_reaction[6].dH_kcal)
    /\ IsNone(ret.raw.adjacent_reaction[6].dG_kcal)
    /\ IsNum(ret.rows_by_ring[5].strain_delta_H_kcal_mol)
    /\ IsNone(ret.rows_by_ring[5].strain_delta_G_kcal_mol)

-----------------------------------------------------------------------------
(* Determinism of the ring-strain report *)

Measured(x) == IsNum(x)

\* C20: _score_rs returns a report whatever is missing (no aggregated rows, no
\* report file or a failed extraction, records without energies): the boolean
\* and the reference points are those of the table and of the flag, there are
\* twelve numeric items, and every item that lacks a ground truth or a
\* prediction has 0 points and the reason "missing".
C20_PartialEvaluationReports ==
    call = "_score_rs" =>
      LET items == ret.report.numerical_details.items
      IN /\ ret.report.boolean_points
              = score_booleans_ringstrain(args.booleans, RUBRIC_RINGSTRAIN).points
         /\ ret.report.reference_points
              = score_reference_ringstrain(args.agent_numeric.reference_is_cyclohexane,
                                           RUBRIC_RINGSTRAIN).points
         /\ Len(items) = 12
         /\ \A j \in 1..Len(items) :
              (~Measured(items[j].gt) \/ ~Measured(items[j].pred))
                 => (items[j].points = 0 /\ items[j].reason = "missing")

\* C20, the part that holds: the report is there with its boolean and
\* reference points and twelve items, an item whose ground truth or
\* prediction is None is "missing", and no item without a measurement earns
\* points
C20_ReportAlwaysReturned ==
    call = "_score_rs" =>
      LET items == ret.report.numerical_details.items
      IN /\ ret.report.boolean_points
              = score_booleans_ringstrain(args.booleans, RUBRIC_RINGSTRAIN).points
         /\ ret.report.reference_points
              = score_reference_ringstrain(args.agent_numeric.reference_is_cyclohexane,
                                           RUBRIC_RINGSTRAIN).points
         /\ Len(items) = 12
         /\ \A j \in 1..Len(items) :
              /\ (IsNone(items[j].gt) \/ IsNone(items[j].pred))
                    => (items[j].points = 0 /\ items[j].reason = "missing")
              /\ (~Measured(items[j].gt) \/ ~Measured(items[j].pred))
                    => items[j].points = 0

\* the case of C20: a record without an enthalpy among records that have one,
\* whose ladder entry reaches the scorer as NaN next to a prediction
C20_NaNGroundTruthScored ==
    /\ call = "_score_rs"
    /\ \E j \in 1..Len(ret.report.numerical_details.items) :
         LET it == ret.report.numerical_details.items[j]
         IN it.gt = NaN /\ IsNum(it.pred) /\ it.reason = "out_of_range"

\* a negative item weight, or a full-credit tolerance above the half-credit one
Malformed(rubric) ==
    LET cfg == rubric.numerical.config
    IN cfg.per_item_points < 0 \/ cfg.abs_tol_full > cfg.abs_tol_half

\* C21: a rubric with a negative weight or with the full-credit tolerance
\* above the half-credit tolerance is rejected when it is loaded, and no score
\* is produced from it.
C21_MalformedRubricRejected ==
    call = "run" => (Malformed(args.rubric) => ret.status = "rejected")

\* the case of C21: items scored from a malformed rubric, one of them with
\* negative points
C21_ScoredFromMalformedRubric ==
    /\ call = "run"
    /\ Malformed(args.rubric)
    /\ ret.status = "scored"
    /\ \E j \in 1..Len(ret.numerical.items) : ret.numerical.items[j].points < 0

\* the files of the folder that are not slurm logs
QcOuts == SeqSet(NonSlurmOuts(args.folder))

\* C22: find_best_out_for_qc returns a file of the best rank available: a
\* file with all-real frequencies whenever there is one, else a file without
\* frequencies rather than one with imaginary frequencies; None only when
\* the folder has no non-slurm .out file.
C22_BestRankReturned ==
    call = "find_best_out_for_qc" =>
      /\ ret = <<>> <=> QcOuts = {}
      /\ ret # <<>> =>
           /\ ret[1] \in QcOuts
           /\ \A p \in QcOuts : _rank(ret[1]) <= _rank(p)

\* C22, the part that holds: a file of the folder is returned unless there is
\* none, and it has all-real frequencies whenever such a file exists
C22_RealFrequenciesPreferred ==
    call = "find_best_out_for_qc" =>
      /\ ret = <<>> <=> QcOuts = {}
      /\ ret # <<>> =>
           /\ ret[1] \in QcOuts
           /\ (\E p \in QcOuts : _rank(p) = 0) => _rank(ret[1]) = 0

\* the case of C22: no file with all-real frequencies, a file without
\* frequencies is there, and the file returned has imaginary frequencies
C22_ImaginaryReturnedOverNone ==
    /\ call = "find_best_out_for_qc"
    /\ \E p \in QcOuts : _rank(p) = 1
    /\ ret # <<>> /\ _rank(ret[1]) = 2

\* C23: in score_numerical_tddft a metric whose rubric entry sets
\* require_json_proof has 0 points and the reason "no_json_proof" whenever
\* json_proof is False, whatever its ground truth and prediction; a metric
\* without the flag is scored the same for json_proof True and False.
C23_JsonProofGate ==
    call = "score_numerical_tddft" =>
      LET crits == RUBRIC_TDDFT.numerical.criteria
          other == score_numerical_tddft(args.ground_truth, args.agent, ~args.json_proof,
                                         RUBRIC_TDDFT)
      IN \A name \in DOMAIN crits :
           /\ (crits[name].require_json_proof /\ ~args.json_proof)
                 => (ret.metrics[name].points = 0
                     /\ ret.metrics[name].reason = "no_json_proof")
           /\ ~crits[name].require_json_proof
                 => ret.metrics[name] = other.metrics[name]

\* C23 witness: without the proof, a gap predicted exactly earns nothing
\* while the S1 energy next to it earns its weight
C23_Witness ==
    /\ call = "score_numerical_tddft"
    /\ ~args.json_proof
    /\ IsNum(args.ground_truth["S1_T1_gap_eV"])
    /\ args.agent["S1_T1_gap_eV"] = args.ground_truth["S1_T1_gap_eV"]
    /\ ret.metrics["S1_T1_gap_eV"].points = 0
    /\ ret.metrics["S1_T1_gap_eV"].reason = "no_json_proof"
    /\ ret.metrics["S1_energy_eV"].reason = "full"
    /\ ret.metrics["S1_energy_eV"].points
         = RUBRIC_TDDFT.numerical.criteria["S1_energy_eV"].weight
    /\ ret.points > 0

\* the rules of the call whose field is scored, that compare equal, whose
\* agent value is missing
ScoredRules ==
    {i \in 1..Len(args.rules) :
        ~(args.rules[i].required
          /\ _coerce(args.rules[i].kind,
                     PayloadGet(args.ground_truth, args.rules[i].name)).t = "none")}

WeightOfRule(i) ==
    IF args.rules[i].name \in DOMAIN args.score_weights
    THEN args.score_weights[args.rules[i].name] ELSE 1

WeightSum(I) == SumSeq([i \in 1..Len(args.rules) |-> IF i \in I THEN WeightOfRule(i) ELSE 0])

EqualRules == {i \in ScoredRules : ret.per_field[args.rules[i].name].ok}

\* C24: compare_payloads returns 100 x (weights of the fields that compare
\* equal) / (weights of the scored fields), rounded to 3 decimals; a required
\* field without a ground truth is listed in missing_gt and is in neither
\* sum; a scored field without an agent value is not ok; the score is 0.0
\* when no field is scored, and lies in [0, 100] for non-negative weights.
C24_WeightedScore ==
    call = "compare_payloads" =>
      /\ WeightSum(ScoredRules) # 0
            => ret.score = RoundQuotient(100000 * WeightSum(EqualRules), WeightSum(ScoredRules))
      /\ ScoredRules = {} => ret.score = 0
      /\ {ret.missing_gt[k] : k \in 1..Len(ret.missing_gt)}
            = {args.rules[i].name : i \in (1..Len(args.rules)) \ ScoredRules}
      /\ Len(ret.missing_gt) = Len(args.rules) - Cardinality(ScoredRules)
      /\ \A i \in (1..Len(args.rules)) \ ScoredRules : ~ret.per_field[args.rules[i].name].ok
      /\ \A i \in ScoredRules :
            _coerce(args.rules[i].kind, PayloadGet(args.agent, args.rules[i].name)).t = "none"
               => ~ret.per_field[args.rules[i].name].ok
      /\ (\A i \in 1..Len(args.rules) : WeightOfRule(i) >= 0)
            => (ret.score >= 0 /\ ret.score <= 100000)

\* C24 witness: three fields, one required without a ground truth, one scored
\* and equal with weight 1, one scored without an agent value with weight 3:
\* the score is 25.0
C24_Witness ==
    /\ call = "compare_payloads"
    /\ Len(args.rules) = 3
    /\ Len(ret.missing_gt) = 1
    /\ Cardinality(EqualRules) = 1
    /\ \E i \in ScoredRules :
          /\ args.rules[i].name \notin DOMAIN args.agent
          /\ WeightOfRule(i) = 3
    /\ ret.score = 25000

\* the folder is the record of some ring size in the cyclo or the methyl map
InMaps(folder, maps) ==
    \/ \E n \in DOMAIN maps.cyclo : maps.cyclo[n].folder = folder
    \/ \E n \in DOMAIN maps.methyl : maps.methyl[n].folder = folder

\* C25: the folder-name fallback is used only when no molecule was derived
\* from the geometry: a folder whose geometry was parsed and is of neither
\* structure class is not entered into the cyclo or the methyl map, and a
\* folder of a class is filed by its geometry whatever its name says.
C25_FallbackOnlyWithoutTopology ==
    call = "build_structure_energy_maps" =>
      /\ args.mol.k = "other" => (ret.info = <<>> /\ ~InMaps(args.folder, ret.maps))
      /\ args.mol.k \in {"cyclo", "methyl"} =>
            (ret.info # <<>> /\ ret.info[1].kind = args.mol.k
             /\ ret.info[1].ring_size = args.mol.n)

\* C25, the part that holds: a folder of a structure class is filed by its
\* geometry, and the name decides only when the geometry gave no class
C25_TopologyFirst ==
    call = "build_structure_energy_maps" =>
      /\ args.mol.k \in {"cyclo", "methyl"} =>
            (ret.info # <<>> /\ ret.info[1].kind = args.mol.k
             /\ ret.info[1].ring_size = args.mol.n)
      /\ args.mol.k \notin {"cyclo", "methyl"} =>
            ret.info = _infer_ring_from_name(args.name, args.folder, ExtraOutput)

\* the case of C25: a parsed geometry of neither class, and the folder is the
\* cyclo record of the ring size in its name
C25_OtherMoleculeEntered ==
    /\ call = "build_structure_energy_maps"
    /\ args.mol.k = "other"
    /\ args.name.formula # <<>>
    /\ ~args.name.methyl_marker
    /\ args.name.formula[1] \in DOMAIN ret.maps.cyclo
    /\ ret.maps.cyclo[args.name.formula[1]].folder = args.folder

\* s is in name order without repetition
NameSorted(s) == \A i \in 1..(Len(s) - 1) : StrLess(s[i].name, s[i + 1].name)

\* C26: iter_child_folders returns, in sorted order, every subdirectory of
\* the root except those whose lower-cased name is one of SKIP_DIRS; a folder
\* with any other name is never filtered out.
C26_OnlySkipDirsFiltered ==
    call = "iter_child_folders" =>
      /\ NameSorted(ret)
      /\ SeqSet(ret) = {p \in args.root_dir : Lower(p.name) \notin SKIP_DIRS}

\* C26, the part that holds: the folders returned are subdirectories of the
\* root in sorted order, none of them is named as a SKIP_DIRS word, and a
\* folder whose name contains no SKIP_DIRS word is returned
C26_SortedAndSkipDirsRemoved ==
    call = "iter_child_folders" =>
      /\ NameSorted(ret)
      /\ SeqSet(ret) \subseteq {p \in args.root_dir : Lower(p.name) \notin SKIP_DIRS}
      /\ \A p \in args.root_dir :
            (\A skip \in SKIP_DIRS : ~IsSubstring(skip, Lower(p.name))) => p \in SeqSet(ret)

\* the case of C26: a folder "blogs" with a usable output, next to a folder
\* that is returned, is filtered out
C26_FolderDropped ==
    /\ call = "iter_child_folders"
    /\ Len(ret) >= 1
    /\ \E p \in args.root_dir :
          /\ p.name = <<"b", "l", "o", "g", "s">>
          /\ has_non_slurm_out(p)
          /\ p \notin SeqSet(ret)

\* the directory a folder lies in
ParentOf(path) == SubSeq(path, 1, Len(path) - 1)

\* the folders of the aggregated rows
AggregatedFolders == {args.gt_numeric[i].FolderPath : i \in 1..Len(args.gt_numeric)}

\* C27: for every non-empty list of aggregated rows, a single row included,
\* the root that _score_rs derives is the parent directory of the rows'
\* folders, so that build_structure_energy_maps scans the folders that were
\* aggregated.
C27_RootIsParentOfRows ==
    (call = "_score_rs" /\ Len(args.gt_numeric) >= 1) =>
      /\ \A f \in AggregatedFolders : ret.root = ParentOf(f)
      /\ \A i \in 1..Len(args.dataset) :
            args.dataset[i].folder \in AggregatedFolders
               => \E j \in 1..Len(ClassifiedUnder(ret.root, args.dataset)) :
                     ClassifiedUnder(ret.root, args.dataset)[j].folder = args.dataset[i].folder

\* C27, the part that holds: with rows of two or more folders the root is
\* their parent directory
C27_RootIsParentOfSeveralRows ==
    (call = "_score_rs" /\ Cardinality(AggregatedFolders) >= 2) =>
      \A f \in AggregatedFolders : ret.root = ParentOf(f)

\* the case of C27: one aggregated row with both energies; the root is the
\* row's own folder, no structure is classified and the ladder is empty but
\* for the anchor
C27_SingleRowRootIsFolder ==
    /\ call = "_score_rs"
    /\ Len(args.gt_numeric) = 1
    /\ IsNum(args.gt_numeric[1].H_total_au) /\ IsNum(args.gt_numeric[1].G_total_au)
    /\ ret.root = args.gt_numeric[1].FolderPath
    /\ DOMAIN ret.cyclo = {} /\ DOMAIN ret.methyl = {}

\* the file spells at least one frequency and none is negative
RealMinimum(p) == p.freqs # <<>> /\ \A i \in 1..Len(p.freqs) : p.freqs[i] >= 0

\* C28: if folder_has_real_freqs returned True for a representative, the
\* output file find_best_out_for_qc selects for that folder has a non-empty
\* frequency set with no negative value.
C28_SelectionAndQcAgree ==
    call = "run_qc" =>
      \A i \in 1..Len(ret.representatives) :
        ret.real[i] = "true" =>
          (ret.primary_out[i] # <<>> /\ RealMinimum(ret.primary_out[i][1]))

\* C28 witness: a representative with real frequencies in its primary output
\* and an imaginary one in another file, listed in another order the second
\* time; the QC output is the file with the real frequencies
C28_Witness ==
    /\ call = "run_qc"
    /\ \E i \in 1..Len(ret.representatives) :
          LET f == ret.representatives[i]
          IN /\ ret.real[i] = "true"
             /\ \E k \in 1..Len(f.outs) : ~RealMinimum(f.outs[k]) /\ f.outs[k].freqs # <<>>
             /\ \E g \in args.later : g.name = f.name /\ g.outs # f.outs
             /\ ret.primary_out[i] # <<>>
             /\ RealMinimum(ret.primary_out[i][1])

\* C29: the report chosen is a function of the candidate files alone: every
\* run of _find_report_rs and of _find_report_tddft on the same files chooses
\* the same report, also when more than one candidate has a preferred name.
C29_ReportChoiceDeterministic ==
    call \in {"_find_report_rs", "_find_report_tddft"} =>
      \A order \in IterationOrders(args.preferred) : FindReport(args.files, order) = ret

\* C29, the part that holds: the choice is the same in every run when at most
\* one candidate name is a preferred one
C29_DeterministicWithOnePreferred ==
    (/\ call \in {"_find_report_rs", "_find_report_tddft"}
     /\ Cardinality({f.name : f \in args.files} \cap args.preferred) <= 1) =>
      \A order \in IterationOrders(args.preferred) : FindReport(args.files, order) = ret

\* the case of C29: two candidates with preferred names, and another run that
\* chooses the other one
C29_TwoPreferredTwoChoices ==
    /\ call = "_find_report_rs"
    /\ Cardinality({f.name : f \in args.files} \cap args.preferred) = 2
    /\ \E order \in IterationOrders(args.preferred) :
          _find_report_rs(args.files, order) # ret

\* the strain values of one row of the structure-based ladder are those of the
\* legacy generator, times sign
SameStrain(row, legacy, sign) ==
    /\ row.strain_delta_H_kcal_mol = Num(sign * legacy.H)
    /\ row.strain_delta_G_kcal_mol = Num(sign * legacy.G)

\* C30: on the same complete set of H and G energies and with the same
\* conversion constant, compute_ringstrain_rows, _score_rs and the legacy
\* generator give the same ring-strain value, with the same sign, for every
\* ring size 3..8, all being zero at ring size 6.
C30_LadderEqualsLegacy ==
    call = "main" =>
      \A n \in 3..8 :
         /\ SameStrain(ret.rows_by_ring[n], ret.legacy.ref_dict[n], 1)
         /\ SameStrain(ret.ground_truth_rows[n], ret.legacy.ref_dict[n], 1)

\* C30, the part that holds: the two structure-based constructions agree, the
\* legacy values are theirs with the opposite sign, and all are zero at 6
C30_LadderIsNegatedLegacy ==
    call = "main" =>
      /\ \A n \in 3..8 :
            /\ ret.ground_truth_rows[n] = ret.rows_by_ring[n]
            /\ SameStrain(ret.rows_by_ring[n], ret.legacy.ref_dict[n], 0 - 1)
      /\ ret.legacy.ref_dict[6] = [H |-> 0, G |-> 0]
      /\ SameStrain(ret.rows_by_ring[6], ret.legacy.ref_dict[6], 1)

\* the case of C30: a ring size whose strain is positive in the legacy table
\* and negative in the ladder
C30_OppositeSigns ==
    /\ call = "main"
    /\ \E n \in 3..8 :
          /\ ret.legacy.ref_dict[n].H > 0
          /\ ret.rows_by_ring[n].strain_delta_H_kcal_mol.v < 0

=============================================================================
